---- MODULE Spec2Model ----
(***************************************************************************)
(* Trust-on-first-use host-key store, SSH connection factory and the       *)
(* update-and-reconnect state machine of mikrotik-fleet-autopilot.         *)
(*                                                                         *)
(* Strings the code inspects (host literals) are sequences of one-char     *)
(* strings; byte strings are sequences of 0..255; base64 text is a         *)
(* sequence of alphabet indexes 0..63 with Pad for '='.                    *)
(* The capturedAt timestamp of a record is not modelled: no decision of    *)
(* the code reads it.                                                      *)
(***************************************************************************)
EXTENDS Integers, Sequences, FiniteSets, TLC

----------------------------------------------------------------------------
(* Bounds *)

NumKeys == 2

MaxFails == 2

\* the longest cfg.Hosts
MaxHosts == 2

\* the longest host part of a host literal given to ParseHost
MaxHostLen == 7

\* the most lines in the output of a status command
MaxLines == 3

\* the most commands in an enrollment script
MaxScript == 2

----------------------------------------------------------------------------
(* Generic sequence helpers *)

RECURSIVE IndexFrom(_, _, _)
IndexFrom(s, c, i) ==
    IF i > Len(s) THEN 0
    ELSE IF s[i] = c THEN i
    ELSE IndexFrom(s, c, i + 1)

IndexOf(s, c) == IndexFrom(s, c, 1)

RECURSIVE LastIndexFrom(_, _, _)
LastIndexFrom(s, c, i) ==
    IF i < 1 THEN 0
    ELSE IF s[i] = c THEN i
    ELSE LastIndexFrom(s, c, i - 1)

LastIndexOf(s, c) == LastIndexFrom(s, c, Len(s))

Contains(s, c) == IndexOf(s, c) > 0

Prefix(s, n) == SubSeq(s, 1, n)

Suffix(s, n) == SubSeq(s, n, Len(s))

----------------------------------------------------------------------------
(* core/host.go : ParseHost *)

Digits == {"0", "1", "2", "3", "4", "5", "6", "7", "8", "9"}

DigitVal(c) ==
    CASE c = "0" -> 0 [] c = "1" -> 1 [] c = "2" -> 2 [] c = "3" -> 3
      [] c = "4" -> 4 [] c = "5" -> 5 [] c = "6" -> 6 [] c = "7" -> 7
      [] c = "8" -> 8 [] c = "9" -> 9

RECURSIVE DecimalVal(_)
DecimalVal(s) ==
    IF Len(s) = 0 THEN 0
    ELSE 10 * DecimalVal(Prefix(s, Len(s) - 1)) + DigitVal(s[Len(s)])

\* one dotted-quad field: 1..3 digits, no leading zero, value <= 255
IsOctet(s) ==
    /\ Len(s) >= 1
    /\ Len(s) <= 3
    /\ \A i \in 1..Len(s) : s[i] \in Digits
    /\ (Len(s) > 1 => s[1] /= "0")
    /\ DecimalVal(s) <= 255

RECURSIVE IsDottedQuad(_, _)
IsDottedQuad(s, fields) ==
    LET d == IndexOf(s, ".")
    IN  IF fields = 1 THEN IsOctet(s)
        ELSE /\ d > 0
             /\ IsOctet(Prefix(s, d - 1))
             /\ IsDottedQuad(Suffix(s, d + 1), fields - 1)

\* net.ParseIP on the modelled alphabet (letters, digits, '.', ':'); the
\* host literals of the model contain no IPv6 text.
IsIPAddress(host) == IsDottedQuad(host, 4)

\* variant: the literal is never split
SplitHostPort_Never(host) == [ok |-> FALSE, host |-> host, port |-> <<>>]

\* net.SplitHostPort for literals without brackets: exactly one ':' splits
SplitHostPort(host) ==
    LET i == LastIndexOf(host, ":")
    IN  IF i = 0 \/ IndexOf(host, ":") /= i
        THEN [ok |-> FALSE, host |-> host, port |-> <<>>]
        ELSE [ok |-> TRUE, host |-> Prefix(host, i - 1),
              port |-> Suffix(host, i + 1)]

\* lines 51-72: the kind of the literal and the short name derived from it
Classify(host, hostPart, port) ==
    IF IsIPAddress(hostPart)
    THEN [Original |-> host, Type |-> "ip", Hostname |-> hostPart,
          Port |-> port, ShortName |-> hostPart]
    ELSE IF Contains(hostPart, ".")
    THEN [Original |-> host, Type |-> "fqdn", Hostname |-> hostPart,
          Port |-> port,
          ShortName |-> IF IndexOf(hostPart, ".") > 1
                        THEN Prefix(hostPart, IndexOf(hostPart, ".") - 1)
                        ELSE hostPart]
    ELSE [Original |-> host, Type |-> "hostname", Hostname |-> hostPart,
          Port |-> port, ShortName |-> hostPart]

\* lines 41-49: a port given in the literal replaces the default "22"
ParseSplit(host, sp) ==
    IF Contains(host, ":") /\ sp.ok
    THEN Classify(host, sp.host, sp.port)
    ELSE Classify(host, host, <<"2", "2">>)

ParseHost(host) == ParseSplit(host, SplitHostPort(host))

\* the characters of a host part: a letter, a digit and the dot
HostChars == {"r", "1", "."}

HostParts == UNION { [1..n -> HostChars] : n \in 0..MaxHostLen }

\* what follows the host part: nothing, an empty port, a port
PortSuffixes == { <<>>, <<":">>, <<":", "2">> }

\* what ssh_config.Get returns for one host: "" when the key is not set;
\* readable: the home directory is known and ~/.ssh/config opens and decodes
SshConfigs ==
    [readable : BOOLEAN,
     Hostname : { <<>>, <<"1", ".", "1", ".", "1", ".", "1">>,
                  <<"%h", ".", "l">> },
     User : { <<>>, <<"a">> },
     Port : { <<>>, <<"0">>, <<"8", "0">> }]

NoSshConfig ==
    [readable |-> FALSE, Hostname |-> <<>>, User |-> <<>>, Port |-> <<>>]

\* strings.ReplaceAll(s, "%h", host); "%h" is one element of s
RECURSIVE ReplaceAll(_, _)
ReplaceAll(s, host) ==
    IF Len(s) = 0 THEN <<>>
    ELSE (IF Head(s) = "%h" THEN host ELSE << Head(s) >>)
             \o ReplaceAll(Tail(s), host)

\* *HostInfo with its User field, which ParseHost leaves empty
HostInfo(info, hostname, user, port) ==
    [Original |-> info.Original, Type |-> info.Type, Hostname |-> hostname,
     Port |-> port, User |-> user, ShortName |-> info.ShortName]

\* lines 753-764: Hostname, User and Port are taken from the per-host
\* configuration when it sets them
MergeSshConfig(host, info, cfg) ==
    HostInfo(info,
             IF cfg.Hostname /= <<>> THEN ReplaceAll(cfg.Hostname, host)
             ELSE info.Hostname,
             cfg.User,
             IF cfg.Port /= <<>> /\ cfg.Port /= <<"0">>
             THEN cfg.Port ELSE info.Port)

readSshConfig(host, cfg) ==
    IF ~cfg.readable
    THEN HostInfo(ParseHost(host), ParseHost(host).Hostname, <<>>,
                  ParseHost(host).Port)
    ELSE MergeSshConfig(host, ParseHost(host), cfg)

NoParse ==
    [done |-> FALSE, fn |-> "none", base |-> <<>>, host |-> <<>>,
     cfg |-> NoSshConfig,
     info |-> HostInfo(ParseHost(<<>>), <<>>, <<>>, <<>>),
     final |-> HostInfo(ParseHost(<<>>), <<>>, <<>>, <<>>)]

\* the host literals given on the command line
Hosts ==
    { <<"r", "1">>,
      <<"r", "1", ".", "l">>,
      <<"r", "2", ":", "2", "2">> }

\* HostKeyFilePath: "<ShortName>.hostkey"; a path is identified with its
\* short name
HostKeyFilePath_Literal(host) == host

HostKeyFilePath(host) == ParseHost(host).ShortName

Paths == { HostKeyFilePath(h) : h \in Hosts }

----------------------------------------------------------------------------
(* encoding/base64 StdEncoding *)

Pad == 64

BadChar == Pad + 1

EncodeGroup(g) ==
    LET b1 == g[1]
        b2 == IF Len(g) >= 2 THEN g[2] ELSE 0
        b3 == IF Len(g) >= 3 THEN g[3] ELSE 0
        v  == b1 * 65536 + b2 * 256 + b3
    IN  << v \div 262144,
           (v \div 4096) % 64,
           IF Len(g) >= 2 THEN (v \div 64) % 64 ELSE Pad,
           IF Len(g) >= 3 THEN v % 64 ELSE Pad >>

RECURSIVE Base64Encode(_)
Base64Encode(bytes) ==
    IF Len(bytes) = 0 THEN <<>>
    ELSE IF Len(bytes) <= 3 THEN EncodeGroup(bytes)
    ELSE EncodeGroup(Prefix(bytes, 3)) \o Base64Encode(Suffix(bytes, 4))

\* one quantum of four characters; last tells whether padding is allowed
DecodeGroup(q, last) ==
    LET n == IF q[3] = Pad THEN 1 ELSE IF q[4] = Pad THEN 2 ELSE 3
        c3 == IF q[3] = Pad THEN 0 ELSE q[3]
        c4 == IF q[4] = Pad THEN 0 ELSE q[4]
        v  == q[1] * 262144 + q[2] * 4096 + c3 * 64 + c4
        ok == /\ q[1] < Pad
              /\ q[2] < Pad
              /\ q[3] <= Pad
              /\ q[4] <= Pad
              /\ (q[3] = Pad => q[4] = Pad)
              /\ (q[4] = Pad => last)
        all == << v \div 65536, (v \div 256) % 256, v % 256 >>
    IN  [ok |-> ok, bytes |-> IF ok THEN Prefix(all, n) ELSE <<>>]

RECURSIVE Base64Decode(_)
Base64Decode(text) ==
    IF Len(text) = 0 THEN [ok |-> TRUE, bytes |-> <<>>]
    ELSE IF Len(text) < 4 THEN [ok |-> FALSE, bytes |-> <<>>]
    ELSE LET g    == DecodeGroup(Prefix(text, 4), Len(text) = 4)
             rest == Base64Decode(Suffix(text, 5))
         IN  IF g.ok /\ rest.ok
             THEN [ok |-> TRUE, bytes |-> g.bytes \o rest.bytes]
             ELSE [ok |-> FALSE, bytes |-> <<>>]

----------------------------------------------------------------------------
(* golang.org/x/crypto/ssh public keys, seen through Type, Marshal and     *)
(* ParsePublicKey: the wire form is the algorithm tag followed by the blob *)

KeyTypes == {"ssh-ed25519", "ssh-rsa"}

TypeTag(t) == IF t = "ssh-ed25519" THEN 1 ELSE 2

TagType(b) == IF b = 1 THEN "ssh-ed25519" ELSE "ssh-rsa"

\* the keys devices present: the first two differ in their last byte only
KeyOf(i) ==
    [type |-> IF i <= 2 THEN "ssh-ed25519" ELSE "ssh-rsa",
     blob |-> IF i <= 2 THEN << 37, i >> ELSE << i >>]

Keys == { KeyOf(i) : i \in 1..NumKeys }

Marshal(key) == << TypeTag(key.type) >> \o key.blob

NoKey == [type |-> "", blob |-> <<>>]

ParsePublicKey(bytes) ==
    IF Len(bytes) >= 2 /\ bytes[1] \in {1, 2}
    THEN [ok |-> TRUE,
          key |-> [type |-> TagType(bytes[1]), blob |-> Suffix(bytes, 2)]]
    ELSE [ok |-> FALSE, key |-> NoKey]

\* crypto/sha256 as a one-byte digest
RECURSIVE Sum256(_)
Sum256(bytes) ==
    IF Len(bytes) = 0 THEN 7
    ELSE (31 * Sum256(Prefix(bytes, Len(bytes) - 1)) + bytes[Len(bytes)]) % 256

GetHostKeyFingerprint(key) ==
    [prefix |-> "SHA256:", b64 |-> Base64Encode(<< Sum256(Marshal(key)) >>)]

----------------------------------------------------------------------------
(* core/hostkey.go : the host-key store, one file per short name *)

AbsentFile == [kind |-> "absent", members |-> <<>>]

\* content that is not JSON
GarbageFile == [kind |-> "garbage", members |-> <<>>]

\* a file os.Stat sees and os.ReadFile cannot read
UnreadableFile == [kind |-> "unreadable", members |-> <<>>]

NoFingerprint == [prefix |-> "", b64 |-> <<>>]

\* json.MarshalIndent of HostKeyInfo: the members in field order
JsonMarshal(info) ==
    [kind |-> "json",
     members |-> << <<"host", info.Host>>,
                    <<"algorithm", info.Algorithm>>,
                    <<"fingerprint", info.Fingerprint>>,
                    <<"publicKey", info.PublicKey>> >>]

HasMember(file, name) == \E i \in 1..Len(file.members) : file.members[i][1] = name

\* the last member of that name wins, as in encoding/json
MemberValue(file, name) ==
    LET i == CHOOSE j \in 1..Len(file.members) :
                 /\ file.members[j][1] = name
                 /\ \A k \in (j + 1)..Len(file.members) : file.members[k][1] /= name
    IN  file.members[i][2]

\* json.Unmarshal into HostKeyInfo: absent members keep their zero value
JsonUnmarshal(file) ==
    IF file.kind /= "json"
    THEN [ok |-> FALSE,
          info |-> [Host |-> <<>>, Algorithm |-> "",
                    Fingerprint |-> NoFingerprint, PublicKey |-> <<>>]]
    ELSE [ok |-> TRUE,
          info |-> [Host |-> IF HasMember(file, "host")
                             THEN MemberValue(file, "host") ELSE <<>>,
                    Algorithm |-> IF HasMember(file, "algorithm")
                                  THEN MemberValue(file, "algorithm") ELSE "",
                    Fingerprint |-> IF HasMember(file, "fingerprint")
                                    THEN MemberValue(file, "fingerprint")
                                    ELSE NoFingerprint,
                    PublicKey |-> IF HasMember(file, "publicKey")
                                  THEN MemberValue(file, "publicKey") ELSE <<>>]]

HostKeyExists(host, st) == st[HostKeyFilePath(host)].kind /= "absent"

HostKeyInfo(host, key) ==
    [Host |-> host,
     Algorithm |-> key.type,
     Fingerprint |-> GetHostKeyFingerprint(key),
     PublicKey |-> Base64Encode(Marshal(key))]

\* outcomes of os.WriteFile: written, failed before touching the file,
\* failed after truncating it
WriteOutcomes == {"ok", "fail_clean", "fail_partial"}

\* os.WriteFile(path, data, 0600)
WriteFile(path, data, st, w) ==
    IF w = "ok"
    THEN [err |-> "none", store |-> [st EXCEPT ![path] = data]]
    ELSE IF w = "fail_partial"
    THEN [err |-> "write", store |-> [st EXCEPT ![path] = GarbageFile]]
    ELSE [err |-> "write", store |-> st]

\* variant: the error of os.WriteFile is dropped
CaptureHostKey_IgnoreWriteError(host, key, st, w) ==
    [WriteFile(HostKeyFilePath(host), JsonMarshal(HostKeyInfo(host, key)), st, w)
        EXCEPT !.err = "none"]

CaptureHostKey(host, key, st, w) ==
    WriteFile(HostKeyFilePath(host), JsonMarshal(HostKeyInfo(host, key)), st, w)

\* LoadHostKey, step by step: parse, decode, unmarshal, read
LoadParsed(pk) ==
    IF ~pk.ok THEN [err |-> "parse", key |-> NoKey]
    ELSE [err |-> "none", key |-> pk.key]

LoadDecoded(dec) ==
    IF ~dec.ok THEN [err |-> "decode", key |-> NoKey]
    ELSE LoadParsed(ParsePublicKey(dec.bytes))

LoadUnmarshaled(js) ==
    IF ~js.ok THEN [err |-> "unmarshal", key |-> NoKey]
    ELSE LoadDecoded(Base64Decode(js.info.PublicKey))

LoadFile(file) ==
    IF file.kind \in {"absent", "unreadable"}
    THEN [err |-> "read", key |-> NoKey]
    ELSE LoadUnmarshaled(JsonUnmarshal(file))

LoadHostKey(host, st) == LoadFile(st[HostKeyFilePath(host)])

BytesEqual_LengthOnly(a, b) == Len(a) = Len(b)

\* bytes.Equal
BytesEqual(a, b) == a = b

\* VerifyHostKey once the stored key is loaded
CompareLoaded(ld, remoteKey) ==
    IF ld.err /= "none" THEN "load"
    ELSE IF ~BytesEqual(Marshal(ld.key), Marshal(remoteKey)) THEN "mismatch"
    ELSE "none"

CompareLoaded_TypeOnly(ld, remoteKey) ==
    IF ld.err /= "none" THEN "load"
    ELSE IF ld.key.type /= remoteKey.type THEN "mismatch"
    ELSE "none"

\* variant: compares the algorithms, not the bytes
VerifyHostKey_TypeOnly(host, remoteKey, st) ==
    CompareLoaded_TypeOnly(LoadHostKey(host, st), remoteKey)

\* variant: the stored fingerprint must also be that of the presented key
VerifyHostKey_ByFingerprint(host, remoteKey, st) ==
    IF LoadHostKey(host, st).err = "none"
       /\ JsonUnmarshal(st[HostKeyFilePath(host)]).info.Fingerprint
              /= GetHostKeyFingerprint(remoteKey)
    THEN "mismatch"
    ELSE CompareLoaded(LoadHostKey(host, st), remoteKey)

VerifyHostKey(host, remoteKey, st) ==
    CompareLoaded(LoadHostKey(host, st), remoteKey)

\* BackupHostKey: fails when there is no record, else copies the file to its
\* ".backup" sibling, over any earlier backup
BackupHostKey(host, st, bk, w) ==
    IF ~HostKeyExists(host, st) THEN [err |-> "not_found", store |-> bk]
    ELSE IF st[HostKeyFilePath(host)].kind = "unreadable"
    THEN [err |-> "read", store |-> bk]
    ELSE WriteFile(HostKeyFilePath(host), st[HostKeyFilePath(host)], bk, w)

\* variant: removing a record that does not exist succeeds
DeleteHostKey_Silent(host, st, removeOK) ==
    LET path == HostKeyFilePath(host)
    IN  IF ~HostKeyExists(host, st) THEN [err |-> "none", store |-> st]
        ELSE IF ~removeOK THEN [err |-> "remove", store |-> st]
        ELSE [err |-> "none", store |-> [st EXCEPT ![path] = AbsentFile]]

DeleteHostKey(host, st, removeOK) ==
    LET path == HostKeyFilePath(host)
    IN  IF ~HostKeyExists(host, st) THEN [err |-> "not_found", store |-> st]
        ELSE IF ~removeOK THEN [err |-> "remove", store |-> st]
        ELSE [err |-> "none", store |-> [st EXCEPT ![path] = AbsentFile]]

----------------------------------------------------------------------------
(* core/common.go : newSsh and its HostKeyCallback *)

\* the *Config found in the context, or none
Configs ==
    { [present |-> FALSE, SkipHostKeyCheck |-> FALSE],
      [present |-> TRUE, SkipHostKeyCheck |-> FALSE],
      [present |-> TRUE, SkipHostKeyCheck |-> TRUE] }

\* variant: the error test of GetConfig inverted
SkipVerification_ErrInverted(cfg) == ~cfg.present /\ cfg.SkipHostKeyCheck

\* GetConfig(ctx) succeeded and the flag is set
SkipVerification(cfg) == cfg.present /\ cfg.SkipHostKeyCheck

\* the value stored under EnrollmentModeKey
IsEnrollmentMode(ctx) == ctx.enroll

\* the credentials of the SshManager: whether each string is non-empty
Credentials == [password : BOOLEAN, passphrase : BOOLEAN]

Contexts == [enroll : BOOLEAN, cfg : Configs, creds : Credentials]

\* variant: a record that cannot be loaded is taken as matching
Verdict_LoadErrorAccepts(v, st) ==
    IF v = "mismatch"
    THEN [err |-> "hostkey_mismatch", store |-> st, wrote |-> "none"]
    ELSE [err |-> "none", store |-> st, wrote |-> "none"]

\* lines 682-691: the verdict on a key that has a record
Verdict(v, st) ==
    IF v /= "none"
    THEN [err |-> IF v = "mismatch" THEN "hostkey_mismatch" ELSE "hostkey_load",
          store |-> st, wrote |-> "none"]
    ELSE [err |-> "none", store |-> st, wrote |-> "none"]

\* lines 702-705: the verdict after CaptureHostKey
Captured(c, w) ==
    IF c.err /= "none"
    THEN [err |-> "hostkey_capture", store |-> c.store, wrote |-> w]
    ELSE [err |-> "none", store |-> c.store, wrote |-> w]

\* variant: an unknown key is captured without asking for enrollment mode
HostKeyCallback_AlwaysCapture(ctx, host, key, st, w) ==
    IF SkipVerification(ctx.cfg)
    THEN [err |-> "none", store |-> st, wrote |-> "none"]
    ELSE IF HostKeyExists(host, st)
    THEN Verdict(VerifyHostKey(host, key, st), st)
    ELSE Captured(CaptureHostKey(host, key, st, w), w)

\* variant: in enrollment mode a key that fails verification is captured
\* over the stored one
HostKeyCallback_Recapture(ctx, host, key, st, w) ==
    IF SkipVerification(ctx.cfg)
    THEN [err |-> "none", store |-> st, wrote |-> "none"]
    ELSE IF HostKeyExists(host, st) /\ ~IsEnrollmentMode(ctx)
    THEN Verdict(VerifyHostKey(host, key, st), st)
    ELSE IF IsEnrollmentMode(ctx)
    THEN IF HostKeyExists(host, st) /\ VerifyHostKey(host, key, st) = "none"
         THEN [err |-> "none", store |-> st, wrote |-> "none"]
         ELSE Captured(CaptureHostKey(host, key, st, w), w)
    ELSE [err |-> "hostkey_missing", store |-> st, wrote |-> "none"]

HostKeyCallback(ctx, host, key, st, w) ==
    IF SkipVerification(ctx.cfg)
    THEN [err |-> "none", store |-> st, wrote |-> "none"]
    ELSE IF HostKeyExists(host, st)
    THEN Verdict(VerifyHostKey(host, key, st), st)
    ELSE IF IsEnrollmentMode(ctx)
    THEN Captured(CaptureHostKey(host, key, st, w), w)
    ELSE [err |-> "hostkey_missing", store |-> st, wrote |-> "none"]

\* what the environment decides during one newSsh call
\* (fields a failed earlier step never reads are fixed)
DialInputs ==
    [unlockOK : BOOLEAN, reachable : {FALSE}, key : {KeyOf(1)},
     authOK : {FALSE}, w : {"ok"}]
    \cup
    [unlockOK : {TRUE}, reachable : {TRUE}, key : Keys,
     authOK : BOOLEAN, w : WriteOutcomes]

\* ssh.Dial after the key exchange: cb is what HostKeyCallback returned
Handshake(cb, in) ==
    IF cb.err /= "none"
    THEN [err |-> cb.err, cb |-> cb.err, store |-> cb.store,
          wrote |-> cb.wrote, dialed |-> TRUE]
    ELSE IF ~in.authOK
    THEN [err |-> "auth_rejected", cb |-> "none", store |-> cb.store,
          wrote |-> cb.wrote, dialed |-> TRUE]
    ELSE [err |-> "none", cb |-> "none", store |-> cb.store,
          wrote |-> cb.wrote, dialed |-> TRUE]

\* ssh.Dial: TCP connect, key exchange (HostKeyCallback), user auth.
\* cb is the callback's verdict, "not_called" when the dial never got there.
Dial(ctx, host, st, in) ==
    IF ~in.reachable
    THEN [err |-> "dial", cb |-> "not_called", store |-> st,
          wrote |-> "none", dialed |-> TRUE]
    ELSE Handshake(HostKeyCallback(ctx, host, in.key, st, in.w), in)

\* variant: when the key cannot be unlocked the password alone is used
newSsh_PasswordFallback(ctx, host, st, in) ==
    IF ~(ctx.creds.passphrase /\ in.unlockOK) /\ ~ctx.creds.password
    THEN [err |-> IF ctx.creds.passphrase THEN "key_unlock"
                  ELSE "no_auth_method",
          cb |-> "not_called", store |-> st, wrote |-> "none",
          dialed |-> FALSE]
    ELSE Dial(ctx, host, st, in)

\* dialed: ssh.Dial was called
newSsh(ctx, host, st, in) ==
    IF ctx.creds.passphrase /\ ~in.unlockOK
    THEN [err |-> "key_unlock", cb |-> "not_called", store |-> st,
          wrote |-> "none", dialed |-> FALSE]
    ELSE IF ~(ctx.creds.passphrase /\ in.unlockOK) /\ ~ctx.creds.password
    THEN [err |-> "no_auth_method", cb |-> "not_called", store |-> st,
          wrote |-> "none", dialed |-> FALSE]
    ELSE Dial(ctx, host, st, in)

\* CreateConnection: the SshManager's credentials handed to newSsh
CreateConnection(ctx, host, st, in) == newSsh(ctx, host, st, in)

\* updates: var sshConnectionFactory = core.CreateConnection
sshConnectionFactory(ctx, host, st, in) == CreateConnection(ctx, host, st, in)

----------------------------------------------------------------------------
(* cmd/updates : status parsing *)

CheckForUpdatesCmd == "/system/package/update/check-for-updates"

RouterboardPrintCmd == "/system/routerboard/print"

InstallCmd == "/system/package/update/install"

RebootCmd == "/system/reboot"

\* device output: lines "key: value"
Line(k, v) == [key |-> k, val |-> v]

\* values of a status line that begin with ERROR
ErrorVals == {"ERROR: timeout", "ERROR: dns"}

OsOutputs ==
    { << Line("installed-version", "7.1"), Line("latest-version", "7.1") >>,
      << Line("installed-version", "7.1"), Line("latest-version", "7.2") >>,
      << Line("installed-version", "7.1"), Line("latest-version", "7.2"),
         Line("status", "ERROR: timeout") >>,
      << Line("installed-version", "7.1") >> }

BoardOutputs ==
    { << Line("routerboard", "no") >>,
      << Line("routerboard", "yes"), Line("current-firmware", "7.1"),
         Line("upgrade-firmware", "7.1") >>,
      << Line("routerboard", "yes"), Line("current-firmware", "7.1"),
         Line("upgrade-firmware", "7.2") >>,
      << Line("routerboard", "yes"), Line("current-firmware", "7.1") >> }

HasLine(result, k) == \E i \in 1..Len(result) : result[i].key = k

\* variant: the last line that has the key
FirstVal_Last(result, k) ==
    result[CHOOSE i \in 1..Len(result) :
               /\ result[i].key = k
               /\ \A j \in (i + 1)..Len(result) : result[j].key /= k].val

\* FindStringSubmatch: the leftmost match, the first line that has the key
FirstVal(result, k) ==
    result[CHOOSE i \in 1..Len(result) :
               /\ result[i].key = k
               /\ \A j \in 1..(i - 1) : result[j].key /= k].val

LastVal(result, k) ==
    result[CHOOSE i \in 1..Len(result) :
               /\ result[i].key = k
               /\ \A j \in (i + 1)..Len(result) : result[j].key /= k].val

NilStatus == [nil |-> TRUE, Installed |-> "", Available |-> ""]

\* getUpdateStatus after conn.Run returned (runErr, result)
getUpdateStatus(runErr, result, installedKey, availableKey, skipIfNoRouterBoard) ==
    IF runErr THEN [err |-> "run", msg |-> "", status |-> NilStatus]
    ELSE IF \E i \in 1..Len(result) :
                result[i].key = "status" /\ result[i].val \in ErrorVals
    THEN [err |-> "vendor", msg |-> LastVal(result, "status"),
          status |-> NilStatus]
    ELSE IF skipIfNoRouterBoard
            /\ \E i \in 1..Len(result) :
                   result[i].key = "routerboard" /\ result[i].val = "no"
    THEN [err |-> "none", msg |-> "", status |-> NilStatus]
    ELSE IF ~HasLine(result, installedKey)
    THEN [err |-> "parse_installed", msg |-> "", status |-> NilStatus]
    ELSE IF ~HasLine(result, availableKey)
    THEN [err |-> "parse_available", msg |-> "", status |-> NilStatus]
    ELSE [err |-> "none", msg |-> "",
          status |-> [nil |-> FALSE,
                      Installed |-> FirstVal(result, installedKey),
                      Available |-> FirstVal(result, availableKey)]]

\* the lines a device prints
StatusLines ==
    { Line("installed-version", "7.1"), Line("latest-version", "7.2"),
      Line("latest-version", "7.1"),
      Line("current-firmware", "7.1"), Line("upgrade-firmware", "7.2"),
      Line("upgrade-firmware", "7.1"),
      Line("status", "ERROR: timeout"), Line("status", "ERROR: dns"),
      Line("status", "New version is available"),
      Line("routerboard", "no") }

StatusOutputs == UNION { [1..n -> StatusLines] : n \in 0..MaxLines }

\* the two calls checkCurrentStatus makes
Subsystems ==
    { [name |-> "RouterOS", installed |-> "installed-version",
       available |-> "latest-version", skip |-> FALSE],
      [name |-> "RouterBoard", installed |-> "current-firmware",
       available |-> "upgrade-firmware", skip |-> TRUE] }

NoSubsystem ==
    [name |-> "none", installed |-> "", available |-> "", skip |-> FALSE]

NoProbe ==
    [done |-> FALSE, sub |-> NoSubsystem, runErr |-> FALSE, result |-> <<>>,
     out |-> [err |-> "none", msg |-> "", status |-> NilStatus],
     upToDate |-> FALSE]

\* updates(): osUpToDate, boardUpToDate and the two apply conditions
OsUpdateNeeded(os) == ~(os.Installed = os.Available)

BoardUpdateNeeded(board) ==
    ~(board.nil \/ board.Installed = board.Available) /\ ~board.nil

----------------------------------------------------------------------------
(* sessions: what an SshRunner is seen to do *)

\* call: the factory invocation of the current applyUpdate that produced
\* the session, 0 for the initial connection
\* closeFailed: a Close of the session returned an error
NewSession(call) ==
    [open |-> TRUE, closes |-> 0, call |-> call, closeFailed |-> FALSE]

\* sshConnection.Close
CloseSession(ss, id, closeOK) ==
    [ss EXCEPT ![id] = [@ EXCEPT !.open = FALSE,
                                 !.closes = @ + 1,
                                 !.closeFailed = @ \/ (ss[id].open /\ ~closeOK)]]

\* sshConnection.Run: a closed client cannot open a session channel
RunFails(ss, id, runOK) == ~ss[id].open \/ ~runOK

\* failed: the step that ran the command got an error from it
RunEntry(ss, id, cmd, failed) ==
    [cmd |-> cmd, sess |-> id, delivered |-> ss[id].open, failed |-> failed]

\* variant: the error of the apply command is dropped
ApplyFailed_Ignored(runErr) == FALSE

\* applyUpdate, lines 304-307: the error of conn.Run(updateCmd) is returned
ApplyFailed(runErr) == runErr

\* variant: a failed probe after the update is returned as an error
PostProbeFatal_Returned(err) == err /= "none"

\* applyComponentUpdate, lines 187-222: the errors of the probes after the
\* update are logged, nil is returned
PostProbeFatal(err) == FALSE

\* variant: an error of Close makes applyUpdate return it
CloseIsFatal_Returned(closeErr) == closeErr

\* applyUpdate, line 308: _ = conn.Close(), the error is dropped
CloseIsFatal(closeErr) == FALSE

\* variant: the loop is left after the first attempt, whatever its outcome
ReconnectNext_NoLoop(err) == "post_os"

\* variant: a failed attempt starts applyUpdate over
ReconnectNext_Reapply(err) == IF err /= "none" THEN "apply_run" ELSE "post_os"

\* variant: a failed attempt is retried at once, without the delay
ReconnectNext_NoSleep(err) == IF err /= "none" THEN "reconnect" ELSE "post_os"

\* variant: the loop gives up at the first failed attempt
ReconnectNext_GiveUp(err) == IF err /= "none" THEN "done" ELSE "post_os"

\* applyUpdate, lines 317-320: continue on error, break otherwise
ReconnectNext(err) == IF err /= "none" THEN "sleep" ELSE "post_os"

\* errors after which the propagation policy forbids a retry
FatalErrors ==
    {"hostkey_mismatch", "auth_rejected", "key_unlock", "no_auth_method"}

----------------------------------------------------------------------------
(* State *)

VARIABLES
    store,       \* path -> host-key file
    trusted,     \* path -> the key captured for it and still on file
    last,        \* the latest factory call, while nothing touched the store since
    pc,          \* position of the updates() run
    run,         \* host, context and apply flag of the run
    sessions,    \* sessions the factory returned during the run
    conn,        \* updates(): conn
    newConn,     \* applyUpdate / applyComponentUpdate: newConn
    osStatus,
    boardStatus,
    component,   \* 0 none, 1 RouterOS, 2 RouterBoard
    calls,       \* factory invocations of the current applyUpdate
    fails,       \* failed ones among them
    sleeps,      \* time.Sleep calls of the current applyUpdate
    runLog,      \* Run calls of the run, in order
    attempts,    \* factory invocations of the run
    fatalAt,     \* attempt number of the first fatal failure, 0 if none
    applyRet,    \* what the latest applyUpdate returned
    ret,         \* what updates() returned
    subcommand,  \* the cli.Command whose Action runs, "none" outside one
    hosts,       \* cfg.Hosts
    hostIdx,     \* iterations of the Action's loop that are over
    processed,   \* the hosts of those iterations and how each ended
    successCount,
    failCount,
    lastErr,     \* the Action's lastErr is non-nil
    actionRet,   \* what the Action returned
    flags,       \* the flags of enroll
    steps,       \* enroll(): the steps that are over, and how each ended
    removed,     \* what deleteExistingEnrollment removed
    backups,     \* path -> its ".backup" sibling
    op,          \* the latest direct call of a host-key store function
    inflight,    \* concurrent processes inside their HostKeyCallback
    probe,       \* one direct call of getUpdateStatus
    parse        \* one direct call of ParseHost or readSshConfig

vars == << store, trusted, last, pc, run, sessions, conn, newConn, osStatus,
           boardStatus, component, calls, fails, sleeps, runLog, attempts,
           fatalAt, applyRet, ret, subcommand, hosts, hostIdx, processed,
           successCount, failCount, lastErr, actionRet, flags, steps, removed,
           backups, op, inflight, probe, parse >>

\* written by direct calls of the store functions and by concurrent callbacks
storeVars == << backups, op, inflight, probe, parse >>

actionVars == << subcommand, hosts, hostIdx, processed, successCount,
                 failCount, lastErr, actionRet, flags, steps, removed,
                 backups, op, inflight, probe, parse >>

procVars == << pc, run, sessions, conn, newConn, osStatus, boardStatus,
               component, calls, fails, sleeps, runLog, attempts, fatalAt,
               applyRet, ret >>

NoTrust == [set |-> FALSE, intact |-> FALSE, key |-> NoKey]

EmptyStore == [p \in Paths |-> AbsentFile]

NoContext ==
    [enroll |-> FALSE,
     cfg |-> [present |-> FALSE, SkipHostKeyCheck |-> FALSE],
     creds |-> [password |-> FALSE, passphrase |-> FALSE]]

NoLast ==
    [valid |-> FALSE, host |-> <<>>, ctx |-> NoContext, key |-> NoKey,
     err |-> "none", cb |-> "not_called", wrote |-> "none",
     dialed |-> FALSE, unlocked |-> FALSE,
     pre |-> EmptyStore, preTrusted |-> NoTrust]

NoRun == [host |-> <<>>, ctx |-> NoContext, apply |-> FALSE]

NoApplyRet == [returned |-> FALSE, err |-> FALSE, sess |-> 0]

\* enroll: --force, --hostname is not empty, --skip-updates, --skip-export
NoFlags ==
    [force |-> FALSE, hostname |-> FALSE, skipUpdates |-> FALSE,
     skipExport |-> FALSE]

NoRemoved == [record |-> FALSE, config |-> FALSE, file |-> AbsentFile]

\* existed: the host had a file when the call was made; changed: the paths
\* whose file the call changed
NoOp ==
    [name |-> "none", host |-> <<>>, key |-> NoKey, err |-> "none",
     existed |-> FALSE, changed |-> {}]

\* no Action is running
NoAction ==
    /\ steps = <<>>
    /\ removed = NoRemoved
    /\ backups = EmptyStore
    /\ op = NoOp
    /\ inflight = <<>>
    /\ probe = NoProbe
    /\ parse = NoParse
    /\ subcommand = "none"
    /\ hosts = <<>>
    /\ hostIdx = 0
    /\ processed = <<>>
    /\ successCount = 0
    /\ failCount = 0
    /\ lastErr = FALSE
    /\ actionRet = "none"
    /\ flags = NoFlags

Init ==
    /\ store = EmptyStore
    /\ trusted = [p \in Paths |-> NoTrust]
    /\ last = NoLast
    /\ pc = "idle"
    /\ run = NoRun
    /\ sessions = <<>>
    /\ conn = 0
    /\ newConn = 0
    /\ osStatus = NilStatus
    /\ boardStatus = NilStatus
    /\ component = 0
    /\ calls = 0
    /\ fails = 0
    /\ sleeps = 0
    /\ runLog = <<>>
    /\ attempts = 0
    /\ fatalAt = 0
    /\ applyRet = NoApplyRet
    /\ ret = "none"
    /\ NoAction

----------------------------------------------------------------------------
(* One factory call and its bookkeeping *)

\* the ghost record of a call: inputs the call did not look at are blanked
LastOf(ctx, host, in, res) ==
    [valid |-> TRUE, host |-> host, ctx |-> ctx,
     key |-> IF res.cb = "not_called" THEN NoKey ELSE in.key,
     err |-> res.err, cb |-> res.cb, wrote |-> res.wrote,
     dialed |-> res.dialed,
     unlocked |-> ctx.creds.passphrase /\ in.unlockOK,
     pre |-> store, preTrusted |-> trusted[HostKeyFilePath(host)]]

\* trusted follows the file: a completed capture pins the presented key, a
\* torn write pins nothing
TrustedAt(p, in, res) ==
    IF res.store[p] = store[p] THEN trusted
    ELSE IF res.wrote = "ok"
    THEN [trusted EXCEPT ![p] = [set |-> TRUE, intact |-> TRUE, key |-> in.key]]
    ELSE [trusted EXCEPT ![p] = NoTrust]

TrustedAfter(host, in, res) == TrustedAt(HostKeyFilePath(host), in, res)

\* res is what sshConnectionFactory(ctx, host) returned
FactoryCall(ctx, host, in, res) ==
    /\ store' = res.store
    /\ trusted' = TrustedAfter(host, in, res)
    /\ last' = LastOf(ctx, host, in, res)

Idle == pc = "idle"

----------------------------------------------------------------------------
(* Operator and environment steps, between commands *)

otherVars == << run, sessions, conn, newConn, osStatus, boardStatus,
                component, calls, fails, sleeps, runLog, attempts, fatalAt,
                applyRet, ret >>

\* a command opens its connection to one host
Connect ==
    /\ Idle
    /\ UNCHANGED actionVars
    /\ \E ctx \in Contexts, host \in Hosts, in \in DialInputs :
           \E res \in {sshConnectionFactory(ctx, host, store, in)} :
               FactoryCall(ctx, host, in, res)
    /\ pc' = "command"
    /\ UNCHANGED otherVars

\* a command opens its connection to one host, whatever the network and
\* the key file are like
AllDialInputs ==
    [unlockOK : BOOLEAN, reachable : BOOLEAN, key : Keys, authOK : BOOLEAN,
     w : WriteOutcomes]

ConnectAny ==
    /\ Idle
    /\ UNCHANGED actionVars
    /\ \E ctx \in Contexts, host \in Hosts, in \in AllDialInputs :
           \E res \in {sshConnectionFactory(ctx, host, store, in)} :
               FactoryCall(ctx, host, in, res)
    /\ pc' = "command"
    /\ UNCHANGED otherVars

\* the command is over
Disconnect ==
    /\ pc = "command"
    /\ UNCHANGED actionVars
    /\ pc' = "idle"
    /\ last' = NoLast
    /\ UNCHANGED << store, trusted >>
    /\ UNCHANGED otherVars

\* explicit deletion of a record by the operator
Delete ==
    /\ Idle
    /\ UNCHANGED actionVars
    /\ \E host \in Hosts, removeOK \in BOOLEAN :
           \E d \in {DeleteHostKey(host, store, removeOK)} :
               /\ store' = d.store
               /\ trusted' = IF d.err = "none"
                             THEN [trusted EXCEPT ![HostKeyFilePath(host)] = NoTrust]
                             ELSE trusted
    /\ last' = NoLast
    /\ UNCHANGED procVars

\* records whose publicKey does not decode, or decodes to no key
BadBase64Info(host, key) ==
    [HostKeyInfo(host, key) EXCEPT !.PublicKey = << BadChar, 0, 0, 0 >>]

BadKeyInfo(host, key) ==
    [HostKeyInfo(host, key) EXCEPT !.PublicKey = Base64Encode(<< 0, 0 >>)]

DamagedFiles(host, key) ==
    { GarbageFile, UnreadableFile,
      JsonMarshal(BadBase64Info(host, key)),
      JsonMarshal(BadKeyInfo(host, key)) }

\* an existing file is damaged on disk
Damage ==
    /\ Idle
    /\ UNCHANGED actionVars
    /\ \E host \in Hosts :
           \E p \in {HostKeyFilePath(host)} :
               /\ store[p].kind = "json"
               /\ trusted[p].intact
               /\ \E f \in DamagedFiles(host, trusted[p].key) :
                      store' = [store EXCEPT ![p] = f]
               /\ trusted' = [trusted EXCEPT ![p].intact = FALSE]
    /\ last' = NoLast
    /\ UNCHANGED procVars

----------------------------------------------------------------------------
(* cmd/updates : updates(ctx, host), one step per blocking call *)

cmdVars == << store, trusted, last >>

\* variant: updates() returns without closing its session
ReturnFromUpdates_NoClose(ss, value, closeOK) ==
    /\ sessions' = ss
    /\ ret' = value
    /\ pc' = "done"

\* the deferred conn.Close() of updates() runs on every return after connect
ReturnFromUpdates(ss, value, closeOK) ==
    /\ sessions' = CloseSession(ss, conn, closeOK)
    /\ ret' = value
    /\ pc' = "done"

FatalAtAfter(err) ==
    IF fatalAt = 0 /\ err \in FatalErrors THEN attempts + 1 ELSE fatalAt

\* variant: the apply flag is not looked at
NextComponent_IgnoreApply(apply, os, board, after) ==
    IF after = 0 /\ OsUpdateNeeded(os) THEN 1
    ELSE IF BoardUpdateNeeded(board) THEN 2
    ELSE 0

\* step 3 of updates(): the component to apply next, 0 when none
\* (after = 0: nothing applied yet, after = 1: RouterOS handled)
NextComponent(apply, os, board, after) ==
    IF ~apply THEN 0
    ELSE IF after = 0 /\ OsUpdateNeeded(os) THEN 1
    ELSE IF BoardUpdateNeeded(board) THEN 2
    ELSE 0

StartUpdates ==
    /\ Idle
    /\ UNCHANGED actionVars
    /\ run' = run
    /\ pc' = "connect"
    /\ sessions' = <<>>
    /\ conn' = 0
    /\ newConn' = 0
    /\ osStatus' = NilStatus
    /\ boardStatus' = NilStatus
    /\ component' = 0
    /\ calls' = 0
    /\ fails' = 0
    /\ sleeps' = 0
    /\ runLog' = <<>>
    /\ attempts' = 0
    /\ fatalAt' = 0
    /\ applyRet' = NoApplyRet
    /\ ret' = "none"
    /\ last' = NoLast
    /\ UNCHANGED << store, trusted >>

ConnectFailedNext_Retry(here) == here

\* a failed first connection: the function returns the error
ConnectFailedNext(here) == "done"

UpdatesConnect ==
    /\ pc = "connect"
    /\ UNCHANGED actionVars
    /\ \E in \in DialInputs :
           \E res \in {sshConnectionFactory(run.ctx, run.host, store, in)} :
               /\ FactoryCall(run.ctx, run.host, in, res)
               /\ attempts' = attempts + 1
               /\ fatalAt' = FatalAtAfter(res.err)
               /\ IF res.err /= "none"
                  THEN /\ ret' = "error"
                       /\ pc' = ConnectFailedNext(pc)
                       /\ UNCHANGED << sessions, conn >>
                  ELSE /\ sessions' = Append(sessions, NewSession(0))
                       /\ conn' = Len(sessions) + 1
                       /\ pc' = "check_os"
                       /\ ret' = ret
    /\ UNCHANGED << run, newConn, osStatus, boardStatus, component, calls,
                    fails, sleeps, runLog, applyRet >>

CheckOs ==
    /\ pc = "check_os"
    /\ UNCHANGED actionVars
    /\ \E runOK \in BOOLEAN, closeOK \in BOOLEAN, out \in OsOutputs :
           LET st == getUpdateStatus(RunFails(sessions, conn, runOK), out,
                                     "installed-version", "latest-version", FALSE)
           IN  /\ runLog' = Append(runLog, RunEntry(sessions, conn,
                                     CheckForUpdatesCmd, st.err /= "none"))
               /\ IF st.err /= "none"
                  THEN /\ ReturnFromUpdates(sessions, "error", closeOK)
                       /\ osStatus' = osStatus
                  ELSE /\ osStatus' = st.status
                       /\ pc' = "check_board"
                       /\ UNCHANGED << sessions, ret >>
    /\ UNCHANGED << run, conn, newConn, boardStatus, component, calls, fails,
                    sleeps, attempts, fatalAt, applyRet >>
    /\ UNCHANGED cmdVars

CheckBoard ==
    /\ pc = "check_board"
    /\ UNCHANGED actionVars
    /\ \E runOK \in BOOLEAN, closeOK \in BOOLEAN, out \in BoardOutputs :
           LET st == getUpdateStatus(RunFails(sessions, conn, runOK), out,
                                     "current-firmware", "upgrade-firmware", TRUE)
               nxt == NextComponent(run.apply, osStatus, st.status, 0)
           IN  /\ runLog' = Append(runLog, RunEntry(sessions, conn,
                                     RouterboardPrintCmd, st.err /= "none"))
               /\ IF st.err /= "none"
                  THEN /\ ReturnFromUpdates(sessions, "error", closeOK)
                       /\ UNCHANGED << boardStatus, component >>
                  ELSE /\ boardStatus' = st.status
                       /\ component' = nxt
                       /\ IF nxt = 0
                          THEN ReturnFromUpdates(sessions, "ok", closeOK)
                          ELSE /\ pc' = "apply_run"
                               /\ UNCHANGED << sessions, ret >>
    /\ UNCHANGED << run, conn, newConn, osStatus, calls, fails, sleeps,
                    attempts, fatalAt, applyRet >>
    /\ UNCHANGED cmdVars

UpdateCmd(c) == IF c = 1 THEN InstallCmd ELSE RebootCmd

\* applyUpdate up to the loop: Run the command, Close the session
ApplyRun ==
    /\ pc = "apply_run"
    /\ UNCHANGED actionVars
    /\ \E runOK \in BOOLEAN, closeOK \in BOOLEAN :
           \E runErr \in {RunFails(sessions, conn, runOK)} :
               /\ runLog' = Append(runLog, RunEntry(sessions, conn,
                                     UpdateCmd(component), runErr))
               /\ IF ApplyFailed(runErr)
                  THEN /\ applyRet' = [returned |-> TRUE, err |-> TRUE, sess |-> 0]
                       /\ ReturnFromUpdates(sessions, "error", closeOK)
                  ELSE IF CloseIsFatal(~closeOK)
                  THEN /\ applyRet' = [returned |-> TRUE, err |-> TRUE, sess |-> 0]
                       /\ ReturnFromUpdates(CloseSession(sessions, conn, closeOK),
                                            "error", closeOK)
                  ELSE /\ applyRet' = NoApplyRet
                       /\ sessions' = CloseSession(sessions, conn, closeOK)
                       /\ pc' = "sleep"
                       /\ ret' = ret
    /\ calls' = 0
    /\ fails' = 0
    /\ sleeps' = 0
    /\ newConn' = 0
    /\ UNCHANGED << run, conn, osStatus, boardStatus, component, attempts,
                    fatalAt >>
    /\ UNCHANGED cmdVars

\* time.Sleep(reconnectDelay)
Sleep ==
    /\ pc = "sleep"
    /\ UNCHANGED actionVars
    /\ sleeps' = sleeps + 1
    /\ pc' = "reconnect"
    /\ UNCHANGED << run, sessions, conn, newConn, osStatus, boardStatus,
                    component, calls, fails, runLog, attempts, fatalAt,
                    applyRet, ret >>
    /\ UNCHANGED cmdVars

\* newConn, err = sshConnectionFactory(ctx, host)
Reconnect ==
    /\ pc = "reconnect"
    /\ UNCHANGED actionVars
    /\ \E in \in DialInputs :
           \E res \in {sshConnectionFactory(run.ctx, run.host, store, in)} :
           LET nxt == ReconnectNext(res.err)
               id  == IF res.err = "none" THEN Len(sessions) + 1 ELSE 0
           IN  /\ res.err /= "none" => fails < MaxFails
               /\ FactoryCall(run.ctx, run.host, in, res)
               /\ calls' = calls + 1
               /\ attempts' = attempts + 1
               /\ fails' = IF res.err /= "none" THEN fails + 1 ELSE fails
               /\ fatalAt' = FatalAtAfter(res.err)
               /\ sessions' = IF res.err = "none"
                              THEN Append(sessions, NewSession(calls + 1))
                              ELSE sessions
               /\ newConn' = id
               /\ pc' = nxt
               /\ applyRet' = IF nxt = "sleep" THEN applyRet
                              ELSE [returned |-> TRUE, err |-> FALSE, sess |-> id]
    /\ UNCHANGED << run, conn, osStatus, boardStatus, component, sleeps,
                    runLog, ret >>

\* applyComponentUpdate: RouterOS probe on the new session
PostOs ==
    /\ pc = "post_os"
    /\ UNCHANGED actionVars
    /\ \E runOK \in BOOLEAN, closeOK \in BOOLEAN, out \in OsOutputs :
           LET st  == getUpdateStatus(RunFails(sessions, newConn, runOK), out,
                                      "installed-version", "latest-version", FALSE)
               nxt == NextComponent(run.apply, osStatus, boardStatus, 1)
               closed == CloseSession(sessions, newConn, closeOK)
           IN  /\ runLog' = Append(runLog, RunEntry(sessions, newConn,
                                     CheckForUpdatesCmd, st.err /= "none"))
               /\ IF component = 2
                  THEN /\ pc' = "post_board"
                       /\ UNCHANGED << sessions, component, ret >>
                  ELSE IF PostProbeFatal(st.err)
                  THEN /\ ReturnFromUpdates(closed, "error", closeOK)
                       /\ component' = component
                  ELSE IF nxt = 0
                  THEN /\ ReturnFromUpdates(closed, "ok", closeOK)
                       /\ component' = component
                  ELSE /\ sessions' = closed
                       /\ component' = nxt
                       /\ pc' = "apply_run"
                       /\ ret' = ret
    /\ UNCHANGED << run, conn, newConn, osStatus, boardStatus, calls, fails,
                    sleeps, attempts, fatalAt, applyRet >>
    /\ UNCHANGED cmdVars

\* applyComponentUpdate with checkBoth: RouterBoard probe, then return
PostBoard ==
    /\ pc = "post_board"
    /\ UNCHANGED actionVars
    /\ \E runOK \in BOOLEAN, closeOK \in BOOLEAN, out \in BoardOutputs :
           LET st == getUpdateStatus(RunFails(sessions, newConn, runOK), out,
                                     "current-firmware", "upgrade-firmware", TRUE)
           IN  /\ runLog' = Append(runLog, RunEntry(sessions, newConn,
                                     RouterboardPrintCmd, st.err /= "none"))
               /\ ReturnFromUpdates(CloseSession(sessions, newConn, closeOK),
                                    IF PostProbeFatal(st.err)
                                    THEN "error" ELSE "ok",
                                    closeOK)
    /\ UNCHANGED << run, conn, newConn, osStatus, boardStatus, component,
                    calls, fails, sleeps, attempts, fatalAt, applyRet >>
    /\ UNCHANGED cmdVars

\* the command returns to the shell
UpdatesDone ==
    /\ pc = "done"
    /\ UNCHANGED actionVars
    /\ pc' = "idle"
    /\ UNCHANGED << run, sessions, conn, newConn, osStatus, boardStatus,
                    component, calls, fails, sleeps, runLog, attempts,
                    fatalAt, applyRet, ret >>
    /\ UNCHANGED cmdVars

----------------------------------------------------------------------------
(* The Actions of the subcommands: one loop over cfg.Hosts each *)

\* cfg.Hosts: lists of distinct hosts, the empty one included
HostLists ==
    UNION { { l \in [1..n -> Hosts] : \A i, j \in 1..n : i /= j => l[i] /= l[j] } :
            n \in 0..MaxHosts }

CurrentHost == hosts[hostIdx + 1]

\* the per-host ghosts start over with each host
ResetRun ==
    /\ sessions' = <<>>
    /\ conn' = 0
    /\ newConn' = 0
    /\ osStatus' = NilStatus
    /\ boardStatus' = NilStatus
    /\ component' = 0
    /\ calls' = 0
    /\ fails' = 0
    /\ sleeps' = 0
    /\ runLog' = <<>>
    /\ attempts' = 0
    /\ fatalAt' = 0
    /\ applyRet' = NoApplyRet
    /\ ret' = "none"

\* variant: the loop is left at the first host that fails
LoopAfter_Abort(failed) == IF failed THEN "returned" ELSE "loop"

\* the loops go on to the next host whatever the per-host call returned
LoopAfter(failed) == "loop"

\* one iteration is over
Processed(host, failed) ==
    /\ processed' = Append(processed, [host |-> host, failed |-> failed])
    /\ hostIdx' = hostIdx + 1
    /\ pc' = LoopAfter(failed)

\* updates Action: updates(ctx, host) is called for the next host
UpdatesCall ==
    /\ pc = "loop"
    /\ subcommand = "updates"
    /\ hostIdx < Len(hosts)
    /\ run' = [run EXCEPT !.host = CurrentHost]
    /\ pc' = "connect"
    /\ ResetRun
    /\ last' = NoLast
    /\ UNCHANGED << store, trusted >>
    /\ UNCHANGED actionVars

\* updates Action, lines 45-48: updates() returned and its locals are gone;
\* its error is printed and dropped, lastErr is not assigned
UpdatesReturn ==
    /\ pc = "done"
    /\ subcommand = "updates"
    /\ Processed(run.host, ret = "error")
    /\ UNCHANGED << lastErr, successCount, failCount, subcommand, hosts, actionRet,
                    flags, steps, removed >>
    /\ UNCHANGED storeVars
    /\ ResetRun
    /\ last' = NoLast
    /\ UNCHANGED << run, store, trusted >>

ExportCmd == "/export terse"

\* export(): the first error of connect, Run and os.WriteFile
ExportError(connErr, runErr, writeOK) ==
    IF connErr /= "none" THEN "connect"
    ELSE IF runErr THEN "run"
    ELSE IF ~writeOK THEN "write"
    ELSE "none"

\* the session of a one-connection operation after its deferred Close
ClosedSessions(connErr, closeOK) ==
    IF connErr /= "none" THEN <<>>
    ELSE CloseSession(<< NewSession(0) >>, 1, closeOK)

\* the one command such an operation runs on its session
OneRun(connErr, command, runErr) ==
    IF connErr /= "none" THEN <<>>
    ELSE << RunEntry(<< NewSession(0) >>, 1, command, runErr) >>

\* export Action: export(ctx, host) for the next host, lastErr = err
ExportHost ==
    /\ pc = "loop"
    /\ subcommand = "export"
    /\ hostIdx < Len(hosts)
    /\ \E in \in DialInputs, runOK \in BOOLEAN, writeOK \in BOOLEAN,
          closeOK \in BOOLEAN :
           \E res \in {sshConnectionFactory(run.ctx, CurrentHost, store, in)} :
           \E err \in {ExportError(res.err, ~runOK, writeOK)} :
               /\ FactoryCall(run.ctx, CurrentHost, in, res)
               /\ attempts' = 1
               /\ fatalAt' = 0
               /\ sessions' = ClosedSessions(res.err, closeOK)
               /\ conn' = Len(sessions')
               /\ runLog' = OneRun(res.err, ExportCmd, ~runOK)
               /\ ret' = IF err /= "none" THEN "error" ELSE "ok"
               /\ Processed(CurrentHost, err /= "none")
               /\ lastErr' = (lastErr \/ err /= "none")
    /\ UNCHANGED << run, newConn, osStatus, boardStatus, component, calls,
                    fails, sleeps, applyRet >>
    /\ UNCHANGED << successCount, failCount, subcommand, hosts, actionRet, flags,
                    steps, removed >>
    /\ UNCHANGED storeVars

\* updates and export Actions: return lastErr
LoopReturn ==
    /\ pc = "loop"
    /\ subcommand \in {"updates", "export"}
    /\ hostIdx = Len(hosts)
    /\ actionRet' = IF lastErr THEN "error" ELSE "ok"
    /\ pc' = "returned"
    /\ UNCHANGED << subcommand, hosts, hostIdx, processed, successCount,
                    failCount, lastErr, flags, steps, removed >>
    /\ UNCHANGED storeVars
    /\ UNCHANGED << run, sessions, conn, newConn, osStatus, boardStatus,
                    component, calls, fails, sleeps, runLog, attempts,
                    fatalAt, applyRet, ret >>
    /\ UNCHANGED cmdVars

\* core.LoadHostKeyInfo
LoadHostKeyInfo(host, st) ==
    IF st[HostKeyFilePath(host)].kind \in {"absent", "unreadable"}
    THEN [err |-> "read", info |-> JsonUnmarshal(AbsentFile).info]
    ELSE IF ~JsonUnmarshal(st[HostKeyFilePath(host)]).ok
    THEN [err |-> "unmarshal", info |-> JsonUnmarshal(AbsentFile).info]
    ELSE [err |-> "none", info |-> JsonUnmarshal(st[HostKeyFilePath(host)]).info]

\* updateHostKey once the factory returned res: the error and the fingerprint
UpdateHostKeyResult(host, res) ==
    IF res.err /= "none"
    THEN [err |-> "connect", fingerprint |-> NoFingerprint]
    ELSE IF LoadHostKeyInfo(host, res.store).err /= "none"
    THEN [err |-> "load", fingerprint |-> NoFingerprint]
    ELSE [err |-> "none",
          fingerprint |-> LoadHostKeyInfo(host, res.store).info.Fingerprint]

\* updateHostKey(ctx, host) with its bookkeeping; failed' is its outcome
UpdateHostKey(host, failed) ==
    \E in \in DialInputs, closeOK \in BOOLEAN :
        \E res \in {sshConnectionFactory(run.ctx, host, store, in)} :
            /\ failed = (UpdateHostKeyResult(host, res).err /= "none")
            /\ FactoryCall(run.ctx, host, in, res)
            /\ attempts' = 1
            /\ fatalAt' = 0
            /\ sessions' = ClosedSessions(res.err, closeOK)
            /\ conn' = Len(sessions')
            /\ runLog' = <<>>
            /\ ret' = IF failed THEN "error" ELSE "ok"

\* variant: only a batch in which every host failed is an error
BatchResult_AllOnly(success, fail) ==
    IF fail > 0 /\ success = 0 THEN "all_failed" ELSE "ok"

\* enroll Action, lines 191-196
BatchResult(success, fail) ==
    IF fail > 0 /\ success = 0 THEN "all_failed"
    ELSE IF fail > 0 THEN "some_failed"
    ELSE "ok"

\* enroll Action with --update-hostkey-only, batch mode: the next host
HostKeyBatchHost ==
    /\ pc = "loop"
    /\ subcommand = "hostkey"
    /\ ~flags.force
    /\ Len(hosts) > 1
    /\ hostIdx < Len(hosts)
    /\ \E failed \in BOOLEAN :
           /\ UpdateHostKey(CurrentHost, failed)
           /\ Processed(CurrentHost, failed)
           /\ failCount' = IF failed THEN failCount + 1 ELSE failCount
           /\ successCount' = IF failed THEN successCount ELSE successCount + 1
           /\ lastErr' = (lastErr \/ failed)
    /\ UNCHANGED << run, newConn, osStatus, boardStatus, component, calls,
                    fails, sleeps, applyRet >>
    /\ UNCHANGED << subcommand, hosts, actionRet, flags, steps, removed >>
    /\ UNCHANGED storeVars

\* batch mode: the loop is over
HostKeyBatchReturn ==
    /\ pc = "loop"
    /\ subcommand = "hostkey"
    /\ ~flags.force
    /\ Len(hosts) > 1
    /\ hostIdx = Len(hosts)
    /\ actionRet' = BatchResult(successCount, failCount)
    /\ pc' = "returned"
    /\ UNCHANGED << subcommand, hosts, hostIdx, processed, successCount,
                    failCount, lastErr, flags, steps, removed >>
    /\ UNCHANGED storeVars
    /\ UNCHANGED << run, sessions, conn, newConn, osStatus, boardStatus,
                    component, calls, fails, sleeps, runLog, attempts,
                    fatalAt, applyRet, ret >>
    /\ UNCHANGED cmdVars

\* --update-hostkey-only with one host, or with none
HostKeySingle ==
    /\ pc = "loop"
    /\ subcommand = "hostkey"
    /\ ~flags.force
    /\ Len(hosts) <= 1
    /\ IF Len(hosts) /= 1
       THEN /\ actionRet' = "no_hosts"
            /\ pc' = "returned"
            /\ UNCHANGED << hostIdx, processed >>
            /\ UNCHANGED << sessions, conn, runLog, attempts, fatalAt, ret >>
            /\ UNCHANGED cmdVars
       ELSE \E failed \in BOOLEAN :
                /\ UpdateHostKey(hosts[1], failed)
                /\ processed' = << [host |-> hosts[1], failed |-> failed] >>
                /\ hostIdx' = 1
                /\ actionRet' = IF failed THEN "error" ELSE "ok"
                /\ pc' = "returned"
    /\ UNCHANGED << run, newConn, osStatus, boardStatus, component, calls,
                    fails, sleeps, applyRet >>
    /\ UNCHANGED << subcommand, hosts, successCount, failCount, lastErr, flags,
                    steps, removed >>
    /\ UNCHANGED storeVars

----------------------------------------------------------------------------
(* cmd/enroll : the enroll Action without --update-hostkey-only, enroll() *)

PreEnrollCmd == "pre-enroll.rsc line"

IdentityCmd == "/system identity set name="

PostEnrollCmd == "post-enroll.rsc line"

enrollVars == << subcommand, hosts, hostIdx, processed, successCount,
                 failCount, lastErr, actionRet, flags, removed, backups, op,
                 inflight, probe, parse >>

updatesLocals == << newConn, osStatus, boardStatus, component, calls, fails,
                    sleeps, applyRet >>

\* deleteExistingEnrollment: the host-key record, then the configuration
\* file "<ShortName>.rsc" when os.Stat finds it
RecordRemoved(host, st, removeOK) ==
    HostKeyExists(host, st) /\ DeleteHostKey(host, st, removeOK).err = "none"

StoreAfterRemoval(host, st, removeOK) ==
    IF HostKeyExists(host, st) THEN DeleteHostKey(host, st, removeOK).store
    ELSE st

deleteExistingEnrollment(host, st, removeOK, cfgExists, cfgRemoveOK) ==
    IF HostKeyExists(host, st) /\ DeleteHostKey(host, st, removeOK).err /= "none"
    THEN [err |-> "hostkey", store |-> st, removed |-> NoRemoved]
    ELSE [err |-> IF cfgExists /\ ~cfgRemoveOK THEN "config" ELSE "none",
          store |-> StoreAfterRemoval(host, st, removeOK),
          removed |-> [record |-> RecordRemoved(host, st, removeOK),
                       config |-> cfgExists /\ cfgRemoveOK,
                       file |-> IF RecordRemoved(host, st, removeOK)
                                THEN st[HostKeyFilePath(host)]
                                ELSE AbsentFile]]

ArgsError_HostnameLate ==
    IF Len(hosts) /= 1 THEN "host_count"
    ELSE "none"

\* enroll Action, lines 218-225: exactly one host, --hostname not empty
ArgsError ==
    IF Len(hosts) /= 1 THEN "host_count"
    ELSE IF ~flags.hostname THEN "hostname"
    ELSE "none"

\* enroll Action, lines 218-236: the validations, then --force
EnrollValidation(d) ==
    IF ArgsError /= "none" THEN ArgsError
    ELSE IF flags.force /\ d.err /= "none" THEN "remove"
    ELSE "none"

\* enroll Action, lines 157-160: --force with --update-hostkey-only
FlagConflict ==
    /\ pc = "loop"
    /\ subcommand = "hostkey"
    /\ flags.force
    /\ actionRet' = "flag_conflict"
    /\ pc' = "returned"
    /\ UNCHANGED << subcommand, hosts, hostIdx, processed, successCount,
                    failCount, lastErr, flags, steps, removed >>
    /\ UNCHANGED storeVars
    /\ UNCHANGED << run, sessions, conn, runLog, attempts, fatalAt, ret >>
    /\ UNCHANGED updatesLocals
    /\ UNCHANGED cmdVars

EnrollStart ==
    /\ pc = "loop"
    /\ subcommand = "enroll"
    /\ \E removeOK \in BOOLEAN, cfgExists \in BOOLEAN, cfgRemoveOK \in BOOLEAN :
           \E d \in { IF ArgsError = "none" /\ flags.force
                      THEN deleteExistingEnrollment(hosts[1], store, removeOK,
                                                    cfgExists, cfgRemoveOK)
                      ELSE [err |-> "none", store |-> store,
                            removed |-> NoRemoved] } :
               /\ store' = d.store
               /\ removed' = d.removed
               /\ trusted' = [p \in Paths |->
                                 IF d.store[p] = store[p] THEN trusted[p]
                                 ELSE NoTrust]
               /\ IF EnrollValidation(d) /= "none"
                  THEN /\ actionRet' = "error"
                       /\ pc' = "returned"
                       /\ run' = run
                  ELSE /\ actionRet' = actionRet
                       /\ pc' = "enroll_connect"
                       /\ run' = [run EXCEPT !.host = hosts[1]]
    /\ last' = NoLast
    /\ UNCHANGED << subcommand, hosts, hostIdx, processed, successCount,
                    failCount, lastErr, flags, steps >>
    /\ UNCHANGED storeVars
    /\ UNCHANGED << sessions, conn, runLog, attempts, fatalAt, ret >>
    /\ UNCHANGED updatesLocals

\* one step of enroll() is over
Step(name, failed) == [name |-> name, failed |-> failed]

ScriptFailed_Ignored(a) == FALSE

\* applyConfigFile returned an error
ScriptFailed(a) == a.err /= "none"

UpdatesFatal_Returned(failed) == failed

\* lines 289-294: the error of applyUpdatesFunc is logged, enroll() goes on
UpdatesFatal(failed) == FALSE

\* the deferred conn.Close() of enroll() runs on every return after connect
ReturnFromEnroll(ss, value, closeOK) ==
    /\ sessions' = CloseSession(ss, conn, closeOK)
    /\ ret' = value
    /\ pc' = "done"

\* enroll(), lines 257-266
EnrollConnect ==
    /\ pc = "enroll_connect"
    /\ \E in \in DialInputs :
           \E res \in {sshConnectionFactory(run.ctx, run.host, store, in)} :
               /\ FactoryCall(run.ctx, run.host, in, res)
               /\ steps' = Append(steps, Step("connect", res.err /= "none"))
               /\ attempts' = attempts + 1
               /\ IF res.err /= "none"
                  THEN /\ ret' = "error"
                       /\ pc' = ConnectFailedNext(pc)
                       /\ UNCHANGED << sessions, conn >>
                  ELSE /\ sessions' = Append(sessions, NewSession(0))
                       /\ conn' = Len(sessions) + 1
                       /\ pc' = "enroll_pre"
                       /\ ret' = ret
    /\ UNCHANGED << run, runLog, fatalAt >>
    /\ UNCHANGED updatesLocals
    /\ UNCHANGED enrollVars

\* the commands applyConfigFile ran: the file has n of them, the failAt-th
\* fails (0: none); on a closed session the first one fails
FailsAt(ss, id, n, failAt) ==
    IF n >= 1 /\ ~ss[id].open THEN 1 ELSE failAt

ScriptRuns(ss, id, command, n, failAt) ==
    [i \in 1..(IF FailsAt(ss, id, n, failAt) > 0
               THEN FailsAt(ss, id, n, failAt) ELSE n) |->
        RunEntry(ss, id, command, i = FailsAt(ss, id, n, failAt))]

\* applyConfigFile: os.Open, then the commands up to the first error
applyConfigFile(ss, id, command, openOK, n, failAt) ==
    IF ~openOK THEN [err |-> "open", runs |-> <<>>]
    ELSE [err |-> IF FailsAt(ss, id, n, failAt) > 0 THEN "run" ELSE "none",
          runs |-> ScriptRuns(ss, id, command, n, failAt)]

\* the step after the identity is set, after = 2, or after the updates, 3
EnrollNext(after) ==
    IF after = 2 /\ ~flags.skipUpdates THEN "enroll_updates"
    ELSE IF ~flags.skipExport THEN "enroll_export"
    ELSE "enroll_post"

\* step 1, lines 268-277
EnrollPre ==
    /\ pc = "enroll_pre"
    /\ \E openOK \in BOOLEAN, n \in 0..MaxScript, closeOK \in BOOLEAN :
       \E failAt \in 0..n :
           \E a \in {applyConfigFile(sessions, conn, PreEnrollCmd, openOK, n,
                                     failAt)} :
               /\ runLog' = runLog \o a.runs
               /\ steps' = Append(steps, Step("pre", a.err /= "none"))
               /\ IF ScriptFailed(a)
                  THEN ReturnFromEnroll(sessions, "error", closeOK)
                  ELSE /\ pc' = "enroll_identity"
                       /\ UNCHANGED << sessions, ret >>
    /\ UNCHANGED << run, conn, attempts, fatalAt >>
    /\ UNCHANGED updatesLocals
    /\ UNCHANGED enrollVars
    /\ UNCHANGED cmdVars

\* step 2, lines 279-287
EnrollIdentity ==
    /\ pc = "enroll_identity"
    /\ \E runOK \in BOOLEAN, closeOK \in BOOLEAN :
           \E runErr \in {RunFails(sessions, conn, runOK)} :
               /\ runLog' = Append(runLog, RunEntry(sessions, conn, IdentityCmd,
                                                    runErr))
               /\ steps' = Append(steps, Step("identity", runErr))
               /\ IF runErr
                  THEN ReturnFromEnroll(sessions, "error", closeOK)
                  ELSE /\ pc' = EnrollNext(2)
                       /\ UNCHANGED << sessions, ret >>
    /\ UNCHANGED << run, conn, attempts, fatalAt >>
    /\ UNCHANGED updatesLocals
    /\ UNCHANGED enrollVars
    /\ UNCHANGED cmdVars

\* step 3, lines 289-301: applyUpdatesFunc returned; its error is logged
EnrollUpdates ==
    /\ pc = "enroll_updates"
    /\ \E updatesOK \in BOOLEAN, closeOK \in BOOLEAN :
           /\ steps' = Append(steps, Step("update", ~updatesOK))
           /\ IF UpdatesFatal(~updatesOK)
              THEN ReturnFromEnroll(sessions, "error", closeOK)
              ELSE /\ pc' = EnrollNext(3)
                   /\ UNCHANGED << sessions, ret >>
    /\ UNCHANGED << run, conn, runLog, attempts, fatalAt >>
    /\ UNCHANGED updatesLocals
    /\ UNCHANGED enrollVars
    /\ UNCHANGED cmdVars

\* step 4, lines 303-310: exportConfigFunc on a connection of its own
EnrollExport ==
    /\ pc = "enroll_export"
    /\ \E in \in DialInputs, runOK \in BOOLEAN, writeOK \in BOOLEAN,
          closeOK \in BOOLEAN :
           \E res \in {sshConnectionFactory(run.ctx, run.host, store, in)} :
           \E err \in {ExportError(res.err, ~runOK, writeOK)} :
               /\ FactoryCall(run.ctx, run.host, in, res)
               /\ steps' = Append(steps, Step("export", err /= "none"))
               /\ attempts' = attempts + 1
               /\ runLog' = IF res.err /= "none" THEN runLog
                            ELSE Append(runLog,
                                        RunEntry(Append(sessions, NewSession(0)),
                                                 Len(sessions) + 1, ExportCmd,
                                                 ~runOK))
               /\ IF err /= "none"
                  THEN ReturnFromEnroll(sessions \o ClosedSessions(res.err, closeOK),
                                        "error", closeOK)
                  ELSE /\ sessions' = sessions \o ClosedSessions(res.err, closeOK)
                       /\ pc' = "enroll_reconnect"
                       /\ ret' = ret
    /\ UNCHANGED << run, conn, fatalAt >>
    /\ UNCHANGED updatesLocals
    /\ UNCHANGED enrollVars

\* lines 311-320: conn.Close(), then conn is assigned what the factory
\* returns; a nil conn makes the deferred conn.Close() panic
EnrollReconnect ==
    /\ pc = "enroll_reconnect"
    /\ \E in \in DialInputs, closeOK \in BOOLEAN :
           \E res \in {sshConnectionFactory(run.ctx, run.host, store, in)} :
               /\ FactoryCall(run.ctx, run.host, in, res)
               /\ steps' = Append(steps, Step("reconnect", res.err /= "none"))
               /\ attempts' = attempts + 1
               /\ IF res.err /= "none"
                  THEN /\ sessions' = CloseSession(sessions, conn, closeOK)
                       /\ conn' = 0
                       /\ ret' = "panic"
                       /\ pc' = "done"
                  ELSE /\ sessions' = Append(CloseSession(sessions, conn, closeOK),
                                             NewSession(0))
                       /\ conn' = Len(sessions) + 1
                       /\ ret' = ret
                       /\ pc' = "enroll_post"
    /\ UNCHANGED << run, runLog, fatalAt >>
    /\ UNCHANGED updatesLocals
    /\ UNCHANGED enrollVars

\* step 5, lines 327-337
EnrollPost ==
    /\ pc = "enroll_post"
    /\ \E openOK \in BOOLEAN, n \in 0..MaxScript, closeOK \in BOOLEAN :
       \E failAt \in 0..n :
           \E a \in {applyConfigFile(sessions, conn, PostEnrollCmd, openOK, n,
                                     failAt)} :
               /\ runLog' = runLog \o a.runs
               /\ steps' = Append(steps, Step("post", a.err /= "none"))
               /\ ReturnFromEnroll(sessions,
                                   IF ScriptFailed(a) THEN "error" ELSE "ok",
                                   closeOK)
    /\ UNCHANGED << run, conn, attempts, fatalAt >>
    /\ UNCHANGED updatesLocals
    /\ UNCHANGED enrollVars
    /\ UNCHANGED cmdVars

\* enroll Action, lines 238-247: enroll() returned; the err that is returned
\* is the one GetConfig assigned, nil
EnrollReturn ==
    /\ pc = "done"
    /\ subcommand = "enroll"
    /\ processed' = Append(processed, [host |-> run.host, failed |-> ret /= "ok"])
    /\ hostIdx' = hostIdx + 1
    /\ actionRet' = IF ret = "panic" THEN "panic" ELSE "ok"
    /\ pc' = "returned"
    /\ UNCHANGED << subcommand, hosts, successCount, failCount, lastErr, flags,
                    steps, removed >>
    /\ UNCHANGED storeVars
    /\ UNCHANGED << run, sessions, conn, runLog, attempts, fatalAt, ret >>
    /\ UNCHANGED updatesLocals
    /\ UNCHANGED cmdVars

\* the store of one operator: connections of any command, deletions, damage
----------------------------------------------------------------------------
(* core/hostkey.go : the store functions called directly *)

OpOf(name, host, key, err, post) ==
    [name |-> name, host |-> host, key |-> key, err |-> err,
     existed |-> HostKeyExists(host, store),
     changed |-> { p \in Paths : post[p] /= store[p] }]

\* the contexts a callback distinguishes
CallbackContexts ==
    { c \in Contexts :
        c.cfg.present /\ c.creds = [password |-> TRUE, passphrase |-> FALSE] }

\* the outcomes of the write the callback makes, if it makes one
CallbackWrites(ctx, host) ==
    IF ~SkipVerification(ctx.cfg) /\ ~HostKeyExists(host, store)
       /\ IsEnrollmentMode(ctx)
    THEN WriteOutcomes ELSE {"ok"}

opFrame == << pc, run, sessions, conn, newConn, osStatus, boardStatus,
              component, calls, fails, sleeps, runLog, attempts, fatalAt,
              applyRet, ret, subcommand, hosts, hostIdx, processed,
              successCount, failCount, lastErr, actionRet, flags, steps,
              removed, inflight, probe, parse >>

CaptureOp ==
    /\ Idle
    /\ \E host \in Hosts, key \in Keys, w \in WriteOutcomes :
           \E c \in {CaptureHostKey(host, key, store, w)} :
               /\ store' = c.store
               /\ trusted' = [trusted EXCEPT ![HostKeyFilePath(host)] =
                                 IF w = "ok"
                                 THEN [set |-> TRUE, intact |-> TRUE, key |-> key]
                                 ELSE IF w = "fail_partial" THEN NoTrust
                                 ELSE @]
               /\ op' = OpOf("capture", host, key, c.err, c.store)
    /\ last' = NoLast
    /\ UNCHANGED backups
    /\ UNCHANGED opFrame

VerifyOp ==
    /\ Idle
    /\ \E host \in Hosts, key \in Keys :
           op' = OpOf("verify", host, key, VerifyHostKey(host, key, store), store)
    /\ last' = NoLast
    /\ UNCHANGED << store, trusted, backups >>
    /\ UNCHANGED opFrame

LoadOp ==
    /\ Idle
    /\ \E host \in Hosts :
           \E ld \in {LoadHostKey(host, store)} :
               op' = OpOf("load", host, ld.key, ld.err, store)
    /\ last' = NoLast
    /\ UNCHANGED << store, trusted, backups >>
    /\ UNCHANGED opFrame

DeleteOp ==
    /\ Idle
    /\ \E host \in Hosts, removeOK \in BOOLEAN :
           \E d \in {DeleteHostKey(host, store, removeOK)} :
               /\ store' = d.store
               /\ trusted' = IF d.store /= store
                             THEN [trusted EXCEPT ![HostKeyFilePath(host)] = NoTrust]
                             ELSE trusted
               /\ op' = OpOf("delete", host, NoKey, d.err, d.store)
    /\ last' = NoLast
    /\ UNCHANGED backups
    /\ UNCHANGED opFrame

\* the HostKeyCallback of one connection attempt
CallbackOp ==
    /\ Idle
    /\ \E ctx \in CallbackContexts, host \in Hosts, key \in Keys :
       \E w \in CallbackWrites(ctx, host) :
           \E cb \in {HostKeyCallback(ctx, host, key, store, w)} :
               /\ store' = cb.store
               /\ trusted' = [trusted EXCEPT ![HostKeyFilePath(host)] =
                                 IF cb.store = store THEN @
                                 ELSE IF cb.wrote = "ok"
                                 THEN [set |-> TRUE, intact |-> TRUE, key |-> key]
                                 ELSE NoTrust]
               /\ op' = OpOf("callback", host, key, cb.err, cb.store)
    /\ last' = NoLast
    /\ UNCHANGED backups
    /\ UNCHANGED opFrame

\* the values the fingerprint member of a record is edited to
Fingerprints == { GetHostKeyFingerprint(k) : k \in Keys } \cup {NoFingerprint}

\* the record with its fingerprint member replaced
WithFingerprint(file, fp) ==
    [file EXCEPT !.members =
        [i \in 1..Len(file.members) |->
            IF file.members[i][1] = "fingerprint"
            THEN <<"fingerprint", fp>> ELSE file.members[i]]]

\* the fingerprint member of a record is edited on disk; nothing else is
TamperOp ==
    /\ Idle
    /\ \E host \in Hosts, fp \in Fingerprints :
           \E p \in {HostKeyFilePath(host)} :
               /\ store[p].kind = "json"
               /\ WithFingerprint(store[p], fp) /= store[p]
               /\ store' = [store EXCEPT ![p] = WithFingerprint(store[p], fp)]
               /\ op' = OpOf("tamper", host, NoKey, "none", store')
    /\ last' = NoLast
    /\ UNCHANGED << trusted, backups >>
    /\ UNCHANGED opFrame

BackupOp ==
    /\ Idle
    /\ \E host \in Hosts, w \in WriteOutcomes :
           \E b \in {BackupHostKey(host, store, backups, w)} :
               /\ backups' = b.store
               /\ op' = OpOf("backup", host, NoKey, b.err, store)
    /\ last' = NoLast
    /\ UNCHANGED << store, trusted >>
    /\ UNCHANGED opFrame

Next ==
    \/ Connect
    \/ Disconnect
    \/ Delete
    \/ Damage

Spec == Init /\ [][Next]_vars

NextDial ==
    \/ ConnectAny
    \/ Disconnect

SpecDial == Init /\ [][NextDial]_vars

NextStore ==
    \/ CaptureOp
    \/ VerifyOp
    \/ LoadOp
    \/ DeleteOp
    \/ CallbackOp

\* direct calls of the store functions and of the callback of a connection
SpecStore == Init /\ [][NextStore]_vars

NextTamper ==
    \/ CaptureOp
    \/ TamperOp
    \/ VerifyOp
    \/ DeleteOp

\* records whose fingerprint member is edited between the calls
SpecTamper == Init /\ [][NextTamper]_vars

NextBackup ==
    \/ CaptureOp
    \/ DeleteOp
    \/ BackupOp

\* records and their backups: the only writer of a backup is BackupHostKey
SpecBackup == Init /\ [][NextBackup]_vars

\* what an earlier enrollment of the host left on file, with the key it
\* pinned: nothing, a torn write, a record, a record damaged since
EnrolledFiles(host) ==
    { [file |-> AbsentFile, trust |-> NoTrust],
      [file |-> GarbageFile, trust |-> NoTrust] }
    \cup { [file |-> JsonMarshal(HostKeyInfo(host, k)),
            trust |-> [set |-> TRUE, intact |-> TRUE, key |-> k]] : k \in Keys }
    \cup UNION { { [file |-> d,
                    trust |-> [set |-> TRUE, intact |-> FALSE, key |-> k]] :
                   d \in DamagedFiles(host, k) } : k \in Keys }

\* the updates command for one host, started with any flags on any store
\* an enrollment of that host can have left
\* updates() sees its host through the path of its record: one host per
\* record, the shortest spelling
RecordHosts ==
    { h \in Hosts :
        \A g \in Hosts : HostKeyFilePath(g) = HostKeyFilePath(h) => Len(h) <= Len(g) }

InitUpdates ==
    /\ \E host \in RecordHosts, ctx \in Contexts, apply \in BOOLEAN :
           /\ run = [host |-> host, ctx |-> ctx, apply |-> apply]
           /\ \E e \in EnrolledFiles(host) :
                  /\ store = [EmptyStore EXCEPT ![HostKeyFilePath(host)] = e.file]
                  /\ trusted = [[p \in Paths |-> NoTrust]
                                   EXCEPT ![HostKeyFilePath(host)] = e.trust]
    /\ last = NoLast
    /\ pc = "idle"
    /\ sessions = <<>>
    /\ conn = 0
    /\ newConn = 0
    /\ osStatus = NilStatus
    /\ boardStatus = NilStatus
    /\ component = 0
    /\ calls = 0
    /\ fails = 0
    /\ sleeps = 0
    /\ runLog = <<>>
    /\ attempts = 0
    /\ fatalAt = 0
    /\ applyRet = NoApplyRet
    /\ ret = "none"
    /\ NoAction

NextUpdates ==
    \/ StartUpdates
    \/ UpdatesConnect
    \/ CheckOs
    \/ CheckBoard
    \/ ApplyRun
    \/ Sleep
    \/ Reconnect
    \/ PostOs
    \/ PostBoard
    \/ UpdatesDone

SpecUpdates == InitUpdates /\ [][NextUpdates]_vars

\* updates --updates-apply on one host with a password, when the blocking
\* calls of the loop return: time.Sleep
\* ends after reconnectDelay, the dial ends with a session or an error
\* (10 s timeout); MaxFails is where the device is back at the latest
\* the blocking factory call of the loop returns, with a session or an error
\* (ssh.ClientConfig.Timeout bounds the dial)
ReconnectReturns == pc = "reconnect" /\ pc' \in {"sleep", "post_os"}

InitApply ==
    /\ InitUpdates
    /\ run.apply
    /\ run.host = << "r", "1" >>
    /\ run.ctx.creds.password
    /\ ~run.ctx.creds.passphrase

SpecUpdatesFair ==
    /\ InitApply
    /\ [][NextUpdates]_vars
    /\ WF_vars(Sleep)
    /\ WF_pc(ReconnectReturns)

\* what enrollments left behind when an Action starts: per short name no
\* record or the record of the first key
ActionStores ==
    { st \in [Paths -> {AbsentFile} \cup
                        UNION { { JsonMarshal(HostKeyInfo(h, KeyOf(1))) :
                                  h \in { g \in Hosts : HostKeyFilePath(g) = p } } :
                                p \in Paths }] :
        \A p \in Paths : st[p].kind = "json" =>
            HostKeyFilePath(st[p].members[1][2]) = p }

\* updates runs without --updates-apply, the flag's default; enrollment mode
\* is set by the enroll Action alone (part_011:163)
ActionRuns(sub) ==
    [host : {<<>>},
     ctx : [enroll : {sub \in {"hostkey", "enroll"}},
            cfg : { c \in Configs : c.present },
            creds : {[password |-> TRUE, passphrase |-> FALSE]}],
     apply : {FALSE}]

\* an Action starts: GetConfig succeeded, the loop is about to begin
InitActions ==
    /\ subcommand \in {"updates", "export", "hostkey", "enroll"}
    /\ hosts \in HostLists
    /\ run \in ActionRuns(subcommand)
    /\ store \in ActionStores
    \* an Action reads and writes the records of cfg.Hosts only
    /\ \A p \in Paths :
           store[p] /= AbsentFile =>
               \E i \in 1..Len(hosts) : HostKeyFilePath(hosts[i]) = p
    /\ trusted = [p \in Paths |->
                     IF store[p].kind = "json"
                     THEN [set |-> TRUE, intact |-> TRUE, key |-> KeyOf(1)]
                     ELSE NoTrust]
    /\ last = NoLast
    /\ pc = "loop"
    /\ hostIdx = 0
    /\ processed = <<>>
    /\ successCount = 0
    /\ failCount = 0
    /\ lastErr = FALSE
    /\ actionRet = "none"
    /\ steps = <<>>
    /\ removed = NoRemoved
    /\ backups = EmptyStore
    /\ op = NoOp
    /\ inflight = <<>>
    /\ probe = NoProbe
    /\ parse = NoParse
    /\ flags \in IF subcommand = "enroll"
                 THEN [force : BOOLEAN, hostname : BOOLEAN,
                       skipUpdates : BOOLEAN, skipExport : BOOLEAN]
                 ELSE IF subcommand = "hostkey"
                 THEN [force : BOOLEAN, hostname : {FALSE},
                       skipUpdates : {FALSE}, skipExport : {FALSE}]
                 ELSE {NoFlags}
    /\ sessions = <<>>
    /\ conn = 0
    /\ newConn = 0
    /\ osStatus = NilStatus
    /\ boardStatus = NilStatus
    /\ component = 0
    /\ calls = 0
    /\ fails = 0
    /\ sleeps = 0
    /\ runLog = <<>>
    /\ attempts = 0
    /\ fatalAt = 0
    /\ applyRet = NoApplyRet
    /\ ret = "none"

NextActions ==
    \/ UpdatesCall
    \/ UpdatesConnect
    \/ CheckOs
    \/ CheckBoard
    \/ UpdatesReturn
    \/ ExportHost
    \/ LoopReturn
    \/ HostKeyBatchHost
    \/ HostKeyBatchReturn
    \/ HostKeySingle
    \/ FlagConflict
    \/ EnrollStart
    \/ EnrollConnect
    \/ EnrollPre
    \/ EnrollIdentity
    \/ EnrollUpdates
    \/ EnrollExport
    \/ EnrollReconnect
    \/ EnrollPost
    \/ EnrollReturn

SpecActions == InitActions /\ [][NextActions]_vars

----------------------------------------------------------------------------
(* core/common.go : the HostKeyCallback of concurrent processes. A callback
   first tests HostKeyExists (os.Stat, line 680) and later, in a second file
   operation, verifies (os.ReadFile) or captures (os.WriteFile); no lock is
   held between the two. *)

Procs == {1, 2}

\* pc: "check" before the test, "act" between the test and the second file
\* operation, "done" after the callback returned err; turn: its rank among
\* the callbacks that returned
RaceProcs ==
    [pc : {"check"}, ctx : CallbackContexts, host : Hosts, key : Keys,
     exists : {FALSE}, err : {"none"}, wrote : {"none"}, turn : {0}]

Returned(fl) == Cardinality({ j \in Procs : fl[j].pc = "done" })

ExistsAtAct_Recheck(seen, now) == now

\* what the second file operation is chosen by: the result of the earlier
\* test, seen, and not the state of the file by now
ExistsAtAct(seen, now) == seen

\* lines 680-709 after the test
RaceVerdict(p, st, w) ==
    IF ExistsAtAct(p.exists, HostKeyExists(p.host, st))
    THEN Verdict(VerifyHostKey(p.host, p.key, st), st)
    ELSE IF IsEnrollmentMode(p.ctx)
    THEN Captured(CaptureHostKey(p.host, p.key, st, w), w)
    ELSE [err |-> "hostkey_missing", store |-> st, wrote |-> "none"]

raceFrame == << last, pc, run, sessions, conn, newConn, osStatus,
                boardStatus, component, calls, fails, sleeps, runLog,
                attempts, fatalAt, applyRet, ret, subcommand, hosts, hostIdx,
                processed, successCount, failCount, lastErr, actionRet, flags,
                steps, removed, backups, op, probe, parse >>

\* lines 672-680: the skip test and HostKeyExists
RaceCheck ==
    /\ \E i \in Procs :
           /\ inflight[i].pc = "check"
           /\ inflight' =
                  [inflight EXCEPT ![i] =
                      IF SkipVerification(@.ctx.cfg)
                      THEN [@ EXCEPT !.pc = "done",
                                     !.turn = Returned(inflight) + 1]
                      ELSE [@ EXCEPT !.pc = "act",
                                     !.exists =
                                         HostKeyExists(inflight[i].host, store)]]
    /\ UNCHANGED << store, trusted >>
    /\ UNCHANGED raceFrame

\* lines 682-709: VerifyHostKey, CaptureHostKey or the fail-closed error
RaceAct ==
    /\ \E i \in Procs :
           /\ inflight[i].pc = "act"
           /\ \E w \in WriteOutcomes :
                  \E v \in {RaceVerdict(inflight[i], store, w)} :
                      /\ store' = v.store
                      /\ trusted' =
                             [trusted EXCEPT ![HostKeyFilePath(inflight[i].host)] =
                                 IF v.wrote = "none" \/ v.wrote = "fail_clean" THEN @
                                 ELSE IF v.wrote = "ok"
                                 THEN [set |-> TRUE, intact |-> TRUE,
                                       key |-> inflight[i].key]
                                 ELSE NoTrust]
                      /\ inflight' =
                             [inflight EXCEPT ![i] =
                                 [@ EXCEPT !.pc = "done", !.err = v.err,
                                           !.wrote = v.wrote,
                                           !.turn = Returned(inflight) + 1]]
    /\ UNCHANGED raceFrame

\* two processes connect at the same time, to any hosts, with any keys
InitRace ==
    /\ store \in ActionStores
    /\ trusted = [p \in Paths |->
                     IF store[p].kind = "json"
                     THEN [set |-> TRUE, intact |-> TRUE, key |-> KeyOf(1)]
                     ELSE NoTrust]
    /\ inflight \in [Procs -> RaceProcs]
    /\ last = NoLast
    /\ pc = "idle"
    /\ run = NoRun
    /\ sessions = <<>>
    /\ conn = 0
    /\ newConn = 0
    /\ osStatus = NilStatus
    /\ boardStatus = NilStatus
    /\ component = 0
    /\ calls = 0
    /\ fails = 0
    /\ sleeps = 0
    /\ runLog = <<>>
    /\ attempts = 0
    /\ fatalAt = 0
    /\ applyRet = NoApplyRet
    /\ ret = "none"
    /\ subcommand = "none"
    /\ hosts = <<>>
    /\ hostIdx = 0
    /\ processed = <<>>
    /\ successCount = 0
    /\ failCount = 0
    /\ lastErr = FALSE
    /\ actionRet = "none"
    /\ flags = NoFlags
    /\ steps = <<>>
    /\ removed = NoRemoved
    /\ backups = EmptyStore
    /\ op = NoOp
    /\ probe = NoProbe
    /\ parse = NoParse

NextRace ==
    \/ RaceCheck
    \/ RaceAct

SpecRace == InitRace /\ [][NextRace]_vars

----------------------------------------------------------------------------
(* cmd/updates : getUpdateStatus called on any output *)

probeFrame == << store, trusted, last, pc, run, sessions, conn, newConn,
                 osStatus, boardStatus, component, calls, fails, sleeps,
                 runLog, attempts, fatalAt, applyRet, ret, subcommand, hosts,
                 hostIdx, processed, successCount, failCount, lastErr,
                 actionRet, flags, steps, removed, backups, op, inflight,
                 parse >>

Probe ==
    /\ probe.sub \in Subsystems
    /\ ~probe.done
    /\ probe' = [probe EXCEPT
                    !.done = TRUE,
                    !.out = getUpdateStatus(probe.runErr, probe.result,
                                            probe.sub.installed,
                                            probe.sub.available,
                                            probe.sub.skip),
                    \* checkCurrentStatus 124, 147 and updates() 87-88
                    !.upToDate =
                        IF probe.sub.skip
                        THEN ~BoardUpdateNeeded(
                                 getUpdateStatus(probe.runErr, probe.result,
                                                 probe.sub.installed,
                                                 probe.sub.available,
                                                 probe.sub.skip).status)
                        ELSE ~OsUpdateNeeded(
                                 getUpdateStatus(probe.runErr, probe.result,
                                                 probe.sub.installed,
                                                 probe.sub.available,
                                                 probe.sub.skip).status)]
    /\ UNCHANGED probeFrame

InitStatus ==
    /\ probe \in [done : {FALSE}, sub : Subsystems, runErr : BOOLEAN,
                   result : StatusOutputs, out : {NoProbe.out},
                   upToDate : {FALSE}]
    /\ parse = NoParse
    /\ store = EmptyStore
    /\ trusted = [p \in Paths |-> NoTrust]
    /\ last = NoLast
    /\ pc = "idle"
    /\ run = NoRun
    /\ sessions = <<>>
    /\ conn = 0
    /\ newConn = 0
    /\ osStatus = NilStatus
    /\ boardStatus = NilStatus
    /\ component = 0
    /\ calls = 0
    /\ fails = 0
    /\ sleeps = 0
    /\ runLog = <<>>
    /\ attempts = 0
    /\ fatalAt = 0
    /\ applyRet = NoApplyRet
    /\ ret = "none"
    /\ subcommand = "none"
    /\ hosts = <<>>
    /\ hostIdx = 0
    /\ processed = <<>>
    /\ successCount = 0
    /\ failCount = 0
    /\ lastErr = FALSE
    /\ actionRet = "none"
    /\ flags = NoFlags
    /\ steps = <<>>
    /\ removed = NoRemoved
    /\ backups = EmptyStore
    /\ op = NoOp
    /\ inflight = <<>>

NextStatus == Probe

SpecStatus == InitStatus /\ [][NextStatus]_vars

----------------------------------------------------------------------------
(* core/host.go, core/common.go : ParseHost and readSshConfig called on any *)
(* host literal                                                            *)

parseFrame == << store, trusted, last, pc, run, sessions, conn, newConn,
                 osStatus, boardStatus, component, calls, fails, sleeps,
                 runLog, attempts, fatalAt, applyRet, ret, subcommand, hosts,
                 hostIdx, processed, successCount, failCount, lastErr,
                 actionRet, flags, steps, removed, backups, op, inflight,
                 probe >>

ParseOp ==
    /\ parse.fn = "ParseHost"
    /\ ~parse.done
    /\ parse' = [parse EXCEPT
                    !.done = TRUE,
                    !.info = HostInfo(ParseHost(parse.host),
                                      ParseHost(parse.host).Hostname, <<>>,
                                      ParseHost(parse.host).Port)]
    /\ UNCHANGED parseFrame

ReadConfigOp ==
    /\ parse.fn = "readSshConfig"
    /\ ~parse.done
    /\ parse' = [parse EXCEPT
                    !.done = TRUE,
                    !.info = HostInfo(ParseHost(parse.host),
                                      ParseHost(parse.host).Hostname, <<>>,
                                      ParseHost(parse.host).Port),
                    !.final = readSshConfig(parse.host, parse.cfg)]
    /\ UNCHANGED parseFrame

\* everything but parse is as Init leaves it
InitParsing ==
    /\ store = EmptyStore
    /\ trusted = [p \in Paths |-> NoTrust]
    /\ last = NoLast
    /\ pc = "idle"
    /\ run = NoRun
    /\ sessions = <<>>
    /\ conn = 0
    /\ newConn = 0
    /\ osStatus = NilStatus
    /\ boardStatus = NilStatus
    /\ component = 0
    /\ calls = 0
    /\ fails = 0
    /\ sleeps = 0
    /\ runLog = <<>>
    /\ attempts = 0
    /\ fatalAt = 0
    /\ applyRet = NoApplyRet
    /\ ret = "none"
    /\ subcommand = "none"
    /\ hosts = <<>>
    /\ hostIdx = 0
    /\ processed = <<>>
    /\ successCount = 0
    /\ failCount = 0
    /\ lastErr = FALSE
    /\ actionRet = "none"
    /\ flags = NoFlags
    /\ steps = <<>>
    /\ removed = NoRemoved
    /\ backups = EmptyStore
    /\ op = NoOp
    /\ inflight = <<>>
    /\ probe = NoProbe

InitParse ==
    /\ \E base \in HostParts, sfx \in PortSuffixes :
           parse = [NoParse EXCEPT !.fn = "ParseHost", !.base = base,
                                   !.host = base \o sfx]
    /\ InitParsing

NextParse == ParseOp

SpecParse == InitParse /\ [][NextParse]_vars

InitSshConfig ==
    /\ \E host \in Hosts, cfg \in SshConfigs :
           parse = [NoParse EXCEPT !.fn = "readSshConfig", !.base = host,
                                   !.host = host, !.cfg = cfg]
    /\ InitParsing

NextSshConfig == ReadConfigOp

SpecSshConfig == InitSshConfig /\ [][NextSshConfig]_vars

TypeOK ==
    /\ pc \in {"idle", "command", "connect", "check_os", "check_board", "apply_run",
               "sleep", "reconnect", "post_os", "post_board", "done",
               "loop", "returned", "enroll_connect", "enroll_pre",
               "enroll_identity", "enroll_updates", "enroll_export",
               "enroll_reconnect", "enroll_post"}
    /\ conn \in 0..Len(sessions)
    /\ newConn \in 0..Len(sessions)
    /\ fails <= MaxFails
    /\ ret \in {"none", "ok", "error", "panic"}

----------------------------------------------------------------------------
(* Properties *)

LastPath == HostKeyFilePath(last.host)

\* the --skip-hostkey-check flag as the command line set it
SkipFlag(cfg) == cfg.SkipHostKeyCheck

\* the callback ran in the latest factory call, with verification on
Verified == last.valid /\ last.cb /= "not_called" /\ ~SkipFlag(last.ctx.cfg)

RecordExisted == last.pre[LastPath].kind /= "absent"

\* the record on file before the call was the one a capture wrote
RecordIntact == last.preTrusted.set /\ last.preTrusted.intact

CountCmd(cmd) == Cardinality({ i \in 1..Len(runLog) : runLog[i].cmd = cmd })

\* C1: with verification on and a record on file, the callback accepts
\* exactly when the record is the captured one and the presented key's raw
\* bytes equal the captured key's raw bytes, in enrollment mode or not
C1_AcceptIffBytesEqual ==
    (Verified /\ RecordExisted) =>
        ( last.cb = "none"
          <=> ( /\ RecordIntact
                /\ Marshal(last.key) = Marshal(last.preTrusted.key) ) )

\* a different key of the same algorithm is rejected in enrollment mode
C1_Witness ==
    /\ Verified
    /\ RecordExisted
    /\ RecordIntact
    /\ last.ctx.enroll
    /\ last.key.type = last.preTrusted.key.type
    /\ last.key /= last.preTrusted.key
    /\ last.cb = "hostkey_mismatch"

\* C2: no record, enrollment mode off, verification on: the attempt fails
\* and leaves no record behind
C2_FailClosedWhenNotEnrolled ==
    ( /\ last.valid
      /\ ~RecordExisted
      /\ ~last.ctx.enroll
      /\ ~SkipFlag(last.ctx.cfg) ) =>
        /\ last.err /= "none"
        /\ last.cb /= "none"
        /\ store[LastPath].kind = "absent"
        /\ store = last.pre

C2_Witness ==
    /\ last.valid
    /\ ~RecordExisted
    /\ ~last.ctx.enroll
    /\ ~SkipFlag(last.ctx.cfg)
    /\ last.cb = "hostkey_missing"

\* C3: no record, enrollment mode on, verification on: an accepted
\* connection has its key on file, and a failed write rejects it
C3_CaptureBeforeAccept ==
    (Verified /\ ~RecordExisted /\ last.ctx.enroll) =>
        /\ last.cb = "none" =>
               /\ last.wrote = "ok"
               /\ LoadHostKey(last.host, store).err = "none"
               /\ Marshal(LoadHostKey(last.host, store).key) = Marshal(last.key)
               /\ LoadHostKey(last.host, store).key.type = last.key.type
        /\ last.wrote \in {"fail_clean", "fail_partial"} =>
               /\ last.cb = "hostkey_capture"
               /\ last.err /= "none"

C3_Witness ==
    /\ Verified
    /\ ~RecordExisted
    /\ last.ctx.enroll
    /\ last.cb = "none"
    /\ store[LastPath].kind = "json"

\* C4: once a key is captured for a short name, and until its record is
\* deleted, a connection accepted with verification on presented that key,
\* and no connection puts another key in its place
C4_TrustedOnce ==
    (last.valid /\ last.preTrusted.set) =>
        /\ (~SkipFlag(last.ctx.cfg) /\ last.cb = "none") =>
               last.key = last.preTrusted.key
        /\ trusted[LastPath] = last.preTrusted
        /\ store = last.pre

\* a second key is turned away in enrollment mode
C4_Witness ==
    /\ last.valid
    /\ last.preTrusted.set
    /\ last.preTrusted.intact
    /\ last.ctx.enroll
    /\ ~SkipFlag(last.ctx.cfg)
    /\ last.cb = "hostkey_mismatch"
    /\ last.key /= last.preTrusted.key

\* C5: with skipVerification on the callback accepts, whatever the key and
\* whatever is on file
C5_SkipAcceptsAll ==
    ( /\ last.valid
      /\ last.cb /= "not_called"
      /\ SkipFlag(last.ctx.cfg) ) =>
        last.cb = "none"

\* accepted against a record that holds another key
C5_Witness ==
    /\ last.valid
    /\ SkipFlag(last.ctx.cfg)
    /\ last.cb = "none"
    /\ RecordIntact
    /\ last.key /= last.preTrusted.key

\* C6: a connection attempt outside enrollment mode leaves the store as it
\* found it
C6_NoWriteOutsideEnrollment ==
    (last.valid /\ ~last.ctx.enroll) => store = last.pre

C6_Witness ==
    /\ Verified
    /\ ~last.ctx.enroll
    /\ RecordExisted
    /\ last.cb = "none"
    /\ last.err = "none"

\* C7: outside enrollment mode and with verification on, applyUpdate returns
\* a session only from a reconnect in which the device presented the key on
\* file
C7_ReconnectVerifiesKey ==
    ( /\ pc = "post_os"
      /\ ~run.ctx.enroll
      /\ ~SkipFlag(run.ctx.cfg) ) =>
        /\ last.valid
        /\ last.err = "none"
        /\ RecordIntact
        /\ Marshal(last.key) = Marshal(last.preTrusted.key)

\* the device came back with another key and the loop goes on without a session
C7_Witness ==
    /\ pc = "sleep"
    /\ calls >= 1
    /\ newConn = 0
    /\ ~applyRet.returned
    /\ ~run.ctx.enroll
    /\ ~SkipFlag(run.ctx.cfg)
    /\ last.cb = "hostkey_mismatch"
    /\ last.key.type = last.preTrusted.key.type

\* C8: within one run no factory call follows a call that failed with a
\* host-key mismatch or an authentication error
C8_NoRetryAfterFatal == fatalAt = 0 \/ attempts = fatalAt

\* C9: within one run the install command and the reboot command are each
\* run at most once
C9_ApplyAtMostOnce ==
    /\ CountCmd(InstallCmd) <= 1
    /\ CountCmd(RebootCmd) <= 1

\* the loop failed as often as the bound allows after the one install
C9_Witness ==
    /\ fails = MaxFails
    /\ pc = "sleep"
    /\ CountCmd(InstallCmd) = 1
    /\ runLog[Len(runLog)].delivered

\* C10: when applyUpdate returns a session after k failed factory calls, it
\* has called the factory k+1 times and the session is the one call k+1 made
C10_ReturnsAfterKPlusOne ==
    (applyRet.returned /\ ~applyRet.err) =>
        /\ calls = fails + 1
        /\ applyRet.sess \in 1..Len(sessions)
        /\ sessions[applyRet.sess].call = fails + 1

C10_Witness ==
    /\ applyRet.returned
    /\ ~applyRet.err
    /\ fails = MaxFails
    /\ calls = MaxFails + 1
    /\ pc = "post_os"
    /\ sessions[applyRet.sess].open

\* applyUpdate returned a session
Reconnected == applyRet.returned /\ ~applyRet.err

\* C11 as stated: when applyUpdate returns a session, it has slept as many
\* times as connection attempts failed
C11_SleepsEqualFailures == Reconnected => sleeps = fails

\* C11 amended: applyUpdate sleeps once before every connection attempt, the
\* first included, so that a session returned after k failed attempts was
\* preceded by k+1 sleeps
C11_SleepBeforeEveryAttempt ==
    /\ pc = "sleep" => sleeps = calls
    /\ pc = "reconnect" => sleeps = calls + 1
    /\ Reconnected => (sleeps = calls /\ sleeps = fails + 1)

\* two failed attempts, then a session: three sleeps
C11_Witness ==
    /\ Reconnected
    /\ pc = "post_os"
    /\ fails = 2
    /\ calls = 3
    /\ sleeps = 3

ApplyCmds == {InstallCmd, RebootCmd}

\* C12: an apply command that fails is the last command of the run: the run
\* has returned an error, applyUpdate has neither slept nor called the
\* factory, and no other apply command follows
C12_ApplyFailureAborts ==
    \A i \in 1..Len(runLog) :
        (runLog[i].cmd \in ApplyCmds /\ runLog[i].failed) =>
            /\ i = Len(runLog)
            /\ pc \in {"done", "idle"}
            /\ ret = "error"
            /\ applyRet.returned /\ applyRet.err
            /\ sleeps = 0
            /\ calls = 0

\* the install failed on a live session while the RouterBoard also needed
\* its update: no reboot was issued
C12_Witness ==
    /\ pc = "done"
    /\ Len(runLog) >= 1
    /\ runLog[Len(runLog)].cmd = InstallCmd
    /\ runLog[Len(runLog)].failed
    /\ runLog[Len(runLog)].delivered
    /\ BoardUpdateNeeded(boardStatus)
    /\ CountCmd(RebootCmd) = 0

InLoop == pc \in {"sleep", "reconnect"}

\* C13: from the first sleep of the loop until applyUpdate returns, the
\* session the apply command ran on has been closed exactly once, the apply
\* command was delivered on it and succeeded; whatever that Close returned,
\* a successful apply command is followed by the loop and by no error
C13_ClosedOnceBeforeReconnect ==
    /\ (InLoop \/ pc = "post_os") =>
           /\ ~sessions[conn].open
           /\ sessions[conn].closes = 1
           /\ runLog[Len(runLog)].cmd = UpdateCmd(component)
           /\ runLog[Len(runLog)].sess = conn
           /\ runLog[Len(runLog)].delivered
           /\ ~runLog[Len(runLog)].failed
    /\ ( /\ Len(runLog) >= 1
         /\ runLog[Len(runLog)].cmd \in ApplyCmds
         /\ ~runLog[Len(runLog)].failed ) =>
           /\ InLoop \/ pc = "post_os"
           /\ ret = "none"
           /\ ~(applyRet.returned /\ applyRet.err)

\* the Close returned an error, a reconnect failed, the next one gave the
\* session
C13_Witness ==
    /\ pc = "post_os"
    /\ Reconnected
    /\ fails >= 1
    /\ sessions[conn].closeFailed
    /\ sessions[conn].closes = 1

\* C14: inside the loop applyUpdate has not returned, however many attempts
\* failed; when it returns it returns a session and no error; and once a
\* reconnect attempt can succeed, the loop ends with that session
C14_NeverGivesUp ==
    /\ [](InLoop => (~applyRet.returned /\ ret = "none"))
    /\ []((calls >= 1 /\ ~InLoop /\ pc /= "apply_run") =>
              (Reconnected /\ applyRet.sess = newConn /\ newConn >= 1))
    /\ (InLoop ~> (pc = "post_os" /\ Reconnected))

\* every attempt the bound allows failed on connectivity alone, then the
\* device answered
C14_Witness ==
    /\ pc = "post_os"
    /\ Reconnected
    /\ fails = MaxFails
    /\ fatalAt = 0
    /\ sleeps = MaxFails + 1

\* the latest command ran on a session of the reconnect loop: it is a probe
\* of applyComponentUpdate
AfterPostProbe == Len(runLog) >= 1 /\ runLog[Len(runLog)].sess /= conn

\* C15: whatever the probes after an update returned, applyComponentUpdate
\* returned no error: the run goes on to the next probe or component, or has
\* returned success
C15_PostProbeNonFatal ==
    AfterPostProbe =>
        \/ pc \in {"post_board", "apply_run"} /\ ret = "none"
        \/ pc \in {"done", "idle"} /\ ret = "ok"

\* both probes after the RouterBoard reboot failed on the live session and
\* the run returned success
C15_Witness ==
    /\ pc = "done"
    /\ ret = "ok"
    /\ component = 2
    /\ Len(runLog) >= 2
    /\ runLog[Len(runLog)].cmd = RouterboardPrintCmd
    /\ runLog[Len(runLog)].sess = newConn
    /\ runLog[Len(runLog)].delivered
    /\ runLog[Len(runLog)].failed
    /\ runLog[Len(runLog) - 1].cmd = CheckForUpdatesCmd
    /\ runLog[Len(runLog) - 1].sess = newConn
    /\ runLog[Len(runLog) - 1].failed

\* the initial status check of the run succeeded
StatusChecked ==
    /\ Len(runLog) >= 2
    /\ ~runLog[1].failed
    /\ ~runLog[2].failed

\* C16: the install command is run only when applying was requested and the
\* initial check found RouterOS installed /= available; the reboot command
\* only when applying was requested and the initial check found a
\* RouterBoard with installed /= available; a check that found no
\* RouterBoard is no error and is followed by no reboot
C16_ApplyOnlyWhenNeeded ==
    /\ CountCmd(InstallCmd) >= 1 =>
           /\ run.apply
           /\ StatusChecked
           /\ ~osStatus.nil
           /\ osStatus.Installed /= osStatus.Available
    /\ CountCmd(RebootCmd) >= 1 =>
           /\ run.apply
           /\ StatusChecked
           /\ ~boardStatus.nil
           /\ boardStatus.Installed /= boardStatus.Available
    /\ \A out \in BoardOutputs :
           (\E i \in 1..Len(out) : out[i] = Line("routerboard", "no")) =>
               getUpdateStatus(FALSE, out, "current-firmware",
                               "upgrade-firmware", TRUE)
                   = [err |-> "none", msg |-> "", status |-> NilStatus]
    /\ (StatusChecked /\ boardStatus.nil /\ ~run.apply) =>
           (pc \in {"done", "idle"} /\ ret = "ok")

\* applying was requested on a device without RouterBoard: the install ran,
\* the reboot did not, the run succeeded
C16_Witness ==
    /\ pc = "done"
    /\ ret = "ok"
    /\ run.apply
    /\ StatusChecked
    /\ boardStatus.nil
    /\ CountCmd(InstallCmd) = 1
    /\ CountCmd(RebootCmd) = 0

\* the Action's loop ran to its end
LoopOver == pc = "returned" /\ actionRet \notin {"no_hosts", "flag_conflict"}

SomeFailed == \E i \in 1..Len(processed) : processed[i].failed

AllFailed == \A i \in 1..Len(processed) : processed[i].failed

\* C18: the hosts a loop has processed are the first hosts of cfg.Hosts in
\* list order, one iteration each; the host being processed is the next of
\* the list; and when the Action returns every host has been processed,
\* whichever of them failed
C18_HostsInOrder ==
    /\ Len(processed) = hostIdx
    /\ hostIdx <= Len(hosts)
    /\ \A i \in 1..Len(processed) : processed[i].host = hosts[i]
    /\ pc \in {"connect", "check_os", "check_board", "done"} =>
           (hostIdx < Len(hosts) /\ run.host = hosts[hostIdx + 1])
    /\ (LoopOver /\ subcommand /= "enroll") => Len(processed) = Len(hosts)

\* the first host failed and the second was processed all the same
C18_Witness ==
    /\ pc = "returned"
    /\ subcommand = "updates"
    /\ Len(hosts) = 2
    /\ Len(processed) = 2
    /\ processed[1].failed
    /\ ~processed[2].failed

\* C19: the updates Action returns an error exactly when updates() failed
\* for at least one host
C19_AggregateFailure ==
    (pc = "returned" /\ subcommand = "updates") =>
        (actionRet = "error" <=> SomeFailed)

\* C20 as stated: the batch host-key update returns an error only when the
\* update failed for every host
C20_FailsOnlyIfAllFailed ==
    (LoopOver /\ subcommand = "hostkey" /\ Len(hosts) > 1) =>
        (actionRet /= "ok" <=> AllFailed)

\* C20 amended: the batch host-key update returns an error when the update
\* failed for at least one host, the all-failed error exactly when it
\* failed for every host, and success only when every host succeeded
C20_FailsIfAnyFailed ==
    (LoopOver /\ subcommand = "hostkey" /\ Len(hosts) > 1) =>
        /\ actionRet /= "ok" <=> SomeFailed
        /\ actionRet = "all_failed" <=> AllFailed
        /\ successCount + failCount = Len(hosts)
        /\ failCount = Cardinality({ i \in 1..Len(processed) : processed[i].failed })

\* one host of the batch failed, another succeeded: an error is returned
C20_Witness ==
    /\ pc = "returned"
    /\ subcommand = "hostkey"
    /\ Len(hosts) > 1
    /\ successCount >= 1
    /\ failCount >= 1
    /\ actionRet = "some_failed"

\* the factory was called and every call of it failed
NeverConnected ==
    /\ subcommand \in {"updates", "export", "enroll"}
    /\ attempts >= 1
    /\ sessions = <<>>

\* C17: when the first connection of updates(), export() or enroll() fails,
\* the factory has been called exactly once, the function has returned the
\* error, and no command was run on any session.
C17_InitialConnectFailure ==
    NeverConnected =>
        /\ attempts = 1
        /\ ret = "error"
        /\ runLog = <<>>
        /\ pc \in {"done", "loop", "returned"}

C17_Witness ==
    /\ NeverConnected
    /\ subcommand = "enroll"
    /\ last.valid /\ last.err /= "none"
    /\ pc = "done"

StepRank(name) ==
    CASE name = "connect" -> 1 [] name = "pre" -> 2 [] name = "identity" -> 3
      [] name = "update" -> 4 [] name = "export" -> 5
      [] name = "reconnect" -> 6 [] name = "post" -> 7

CmdRank(cmd) ==
    CASE cmd = PreEnrollCmd -> 2 [] cmd = IdentityCmd -> 3
      [] cmd = ExportCmd -> 5 [] cmd = PostEnrollCmd -> 7

StepDone(name) == \E i \in 1..Len(steps) : steps[i].name = name

UpdateSteps == { i \in 1..Len(steps) : steps[i].name = "update" }

UpdateFailed == \E i \in UpdateSteps : steps[i].failed

\* C22: a failed update step does not end enroll(): the next step is the
\* export, or the post-enroll script when the export is skipped; the update
\* step is called once; and enroll() returns success when the later steps
\* succeed.
C22_UpdateFailureNonFatal ==
    subcommand = "enroll" =>
        /\ Cardinality(UpdateSteps) <= 1
        /\ (steps /= <<>> /\ steps[Len(steps)] = [name |-> "update", failed |-> TRUE]) =>
               /\ ret = "none"
               /\ pc = IF flags.skipExport THEN "enroll_post" ELSE "enroll_export"
        /\ (StepDone("post") /\ ~flags.skipUpdates) => Cardinality(UpdateSteps) = 1
        /\ (StepDone("post") /\ ~flags.skipExport) =>
               [name |-> "export", failed |-> FALSE] \in
                   { steps[i] : i \in 1..Len(steps) }
        /\ (UpdateFailed /\ pc = "done" /\
                steps[Len(steps)] = [name |-> "post", failed |-> FALSE]) =>
               ret = "ok"

\* the update step failed, the export and the post-enroll script ran and
\* enroll() returned success
C22_Witness ==
    /\ subcommand = "enroll"
    /\ UpdateFailed
    /\ StepDone("export")
    /\ pc = "done"
    /\ steps[Len(steps)] = [name |-> "post", failed |-> FALSE]
    /\ ret = "ok"

\* the arguments the enroll command rejects
InvalidArgs ==
    \/ subcommand = "hostkey" /\ flags.force
    \/ subcommand = "enroll" /\ Len(hosts) /= 1
    \/ subcommand = "enroll" /\ ~flags.hostname

\* C23: with --force together with --update-hostkey-only, with a host count
\* other than one or with an empty --hostname for a normal enrollment, the
\* only step of the enroll command is to return an error: no connection is
\* opened, no command is run, and no host-key record or configuration file
\* is deleted.
C23_ValidationFirst ==
    [][InvalidArgs =>
          /\ pc' = "returned"
          /\ actionRet' \in {"error", "flag_conflict"}
          /\ UNCHANGED << store, trusted, backups, removed, sessions,
                          attempts, runLog, steps >>]_vars

\* --force without --hostname for a host that has a record: the command
\* returned an error and the record is still there
C23_Witness ==
    /\ subcommand = "enroll"
    /\ flags.force
    /\ ~flags.hostname
    /\ Len(hosts) = 1
    /\ pc = "returned"
    /\ actionRet = "error"
    /\ HostKeyExists(hosts[1], store)
    /\ attempts = 0

\* updateHostKey just ran in enrollment mode, with verification on, for a
\* host whose record held a readable key, and the device presented another
\* key and accepted the credentials
KeyRotated ==
    /\ subcommand = "hostkey"
    /\ Verified
    /\ last.ctx.enroll
    /\ last.err /= "auth_rejected"
    /\ LoadHostKey(last.host, last.pre).err = "none"
    /\ LoadHostKey(last.host, last.pre).key /= last.key

\* C24: updateHostKey, in enrollment mode for a host that has a record while
\* the device presents a different key, succeeds and leaves the presented
\* key in the store.
C24_UpdatesExistingRecord ==
    KeyRotated =>
        /\ ret = "ok"
        /\ LoadHostKey(last.host, store).err = "none"
        /\ LoadHostKey(last.host, store).key = last.key

\* C25: once deleteExistingEnrollment has removed a host-key record, the
\* ".backup" sibling of the record holds the content that was removed.
C25_BackupBeforeDelete ==
    (subcommand = "enroll" /\ removed.record) =>
        backups[HostKeyFilePath(hosts[1])] = removed.file

\* the key a completed capture left on file for the host of the latest call
Pinned == trusted[HostKeyFilePath(op.host)]

\* C26: after CaptureHostKey(host, k1) wrote the record of a short name,
\* VerifyHostKey for that short name succeeds for a key whose bytes equal
\* k1's and fails with a mismatch for any other key, and LoadHostKey returns
\* a key of k1's type and bytes.
C26_CaptureVerifyLoad ==
    /\ (op.name = "capture" /\ op.err = "none") =>
           /\ LoadHostKey(op.host, store) = [err |-> "none", key |-> op.key]
           /\ \A k2 \in Keys :
                  VerifyHostKey(op.host, k2, store) =
                      IF Marshal(k2) = Marshal(op.key) THEN "none" ELSE "mismatch"
    /\ (op.name = "verify" /\ Pinned.intact) =>
           op.err = IF Marshal(op.key) = Marshal(Pinned.key)
                    THEN "none" ELSE "mismatch"
    /\ (op.name = "load" /\ Pinned.intact) =>
           /\ op.err = "none"
           /\ op.key.type = Pinned.key.type
           /\ Marshal(op.key) = Marshal(Pinned.key)

\* a key captured under one literal of a short name is verified under
\* another literal against a different key of the same type: mismatch
C26_Witness ==
    /\ op.name = "verify"
    /\ Pinned.intact
    /\ MemberValue(store[HostKeyFilePath(op.host)], "host") /= op.host
    /\ op.key /= Pinned.key
    /\ op.key.type = Pinned.key.type
    /\ op.err = "mismatch"

ShortNameOf(host) == ParseHost(host).ShortName

\* the latest call wrote the record of its host
WroteRecord ==
    \/ op.name = "capture" /\ op.err = "none"
    \/ op.name = "callback" /\ op.err = "none" /\ op.changed /= {}

\* C28: a capture, verification, load or deletion, called directly or by the
\* callback of a connection attempt, changes no file but that of the short
\* name of its host; host literals with the same short name always see the
\* same record; and the record a call wrote is the record of exactly the
\* literals whose short name is that of its host.
C28_PerShortName ==
    /\ op.name /= "none" => op.changed \subseteq {ShortNameOf(op.host)}
    /\ \A h1, h2 \in Hosts :
           ShortNameOf(h1) = ShortNameOf(h2) =>
               /\ HostKeyExists(h1, store) = HostKeyExists(h2, store)
               /\ LoadHostKeyInfo(h1, store) = LoadHostKeyInfo(h2, store)
    /\ WroteRecord =>
           \A h \in Hosts :
               (LoadHostKeyInfo(h, store) =
                    [err |-> "none", info |-> HostKeyInfo(op.host, op.key)])
               <=> ShortNameOf(h) = ShortNameOf(op.host)

\* the callback of a connection captured a key for one short name while
\* another short name had a record, which is still there
C28_Witness ==
    /\ op.name = "callback"
    /\ WroteRecord
    /\ \E h \in Hosts :
           /\ ShortNameOf(h) /= ShortNameOf(op.host)
           /\ LoadHostKeyInfo(h, store).err = "none"
    /\ \E h \in Hosts :
           /\ h /= op.host
           /\ ShortNameOf(h) = ShortNameOf(op.host)

\* the callback of process i found no record, in enrollment mode, with
\* verification on, and has returned
CapturedBlind(i) ==
    /\ inflight /= <<>>
    /\ inflight[i].pc = "done"
    /\ ~SkipFlag(inflight[i].ctx.cfg)
    /\ inflight[i].ctx.enroll
    /\ ~inflight[i].exists

\* both callbacks captured, for the same short name, keys that differ
BothAccepted ==
    /\ CapturedBlind(1) /\ CapturedBlind(2)
    /\ inflight[1].err = "none" /\ inflight[2].err = "none"
    /\ ShortNameOf(inflight[1].host) = ShortNameOf(inflight[2].host)
    /\ inflight[1].key /= inflight[2].key

\* C29: nothing ties the test for a record to the capture that follows it. A
\* callback that found no record writes its key whatever another process has
\* written since, and is accepted unless its own write fails; when two
\* callbacks for one short name are both accepted with different keys, the
\* store holds the key of the one that wrote last and the other is lost.
C29_CheckThenActRace ==
    /\ \A i \in Procs :
           CapturedBlind(i) =>
               /\ inflight[i].wrote /= "none"
               /\ inflight[i].err = "none" <=> inflight[i].wrote = "ok"
    /\ BothAccepted =>
           \A i, j \in Procs :
               inflight[i].turn < inflight[j].turn =>
                   /\ LoadHostKey(inflight[j].host, store) =
                          [err |-> "none", key |-> inflight[j].key]
                   /\ VerifyHostKey(inflight[i].host, inflight[i].key, store)
                          = "mismatch"

\* two concurrent enrollment-mode connections to a short name without a
\* record presented different keys and both were accepted
C29_Witness ==
    /\ BothAccepted
    /\ inflight[1].turn = 2
    /\ LoadHostKey(inflight[2].host, store).key = inflight[1].key

ErrorLines(result) ==
    { i \in 1..Len(result) :
        result[i].key = "status" /\ result[i].val \in ErrorVals }

LastErrorLine(result) ==
    result[CHOOSE i \in ErrorLines(result) : \A j \in ErrorLines(result) : j <= i]

\* C30: when the output has a status line that reports an error,
\* getUpdateStatus fails with the vendor-reported error, whatever version
\* lines the output has, and the message is the text of the last status
\* line that reports an error.
C30_LastErrorLine ==
    (probe.done /\ ~probe.runErr /\ ErrorLines(probe.result) /= {}) =>
        /\ probe.out.err = "vendor"
        /\ probe.out.status = NilStatus
        /\ probe.out.msg = LastErrorLine(probe.result).val

KeyLines(result, k) == { i \in 1..Len(result) : result[i].key = k }

FirstToken(result, k) ==
    result[CHOOSE i \in KeyLines(result, k) :
               \A j \in KeyLines(result, k) : i <= j].val

\* the output has no vendor error and does not say the board is absent
Parsed ==
    /\ probe.done
    /\ ~probe.runErr
    /\ ErrorLines(probe.result) = {}
    /\ ~(probe.sub.skip
         /\ \E i \in KeyLines(probe.result, "routerboard") :
                probe.result[i].val = "no")

BothTokens ==
    /\ KeyLines(probe.result, probe.sub.installed) /= {}
    /\ KeyLines(probe.result, probe.sub.available) /= {}

\* C31: on an output with no vendor error status line, of a subsystem that
\* is present, getUpdateStatus returns the installed and the available
\* token as the output has them when it has both, and fails with a parse
\* error, not the vendor error, when it lacks one; the subsystem counts as
\* up to date exactly when the two tokens are equal.
C31_TokensOrParseError ==
    Parsed =>
        IF BothTokens
        THEN /\ probe.out.err = "none"
             /\ ~probe.out.status.nil
             /\ probe.out.status.Installed =
                    FirstToken(probe.result, probe.sub.installed)
             /\ probe.out.status.Available =
                    FirstToken(probe.result, probe.sub.available)
             /\ probe.upToDate <=>
                    (FirstToken(probe.result, probe.sub.installed)
                        = FirstToken(probe.result, probe.sub.available))
        ELSE /\ probe.out.err \in {"parse_installed", "parse_available"}
             /\ probe.out.status = NilStatus

\* both tokens found and equal, with a second, different available token
\* further down
C31_Witness ==
    /\ Parsed
    /\ BothTokens
    /\ probe.upToDate
    /\ Cardinality({ probe.result[i].val :
                        i \in KeyLines(probe.result, probe.sub.available) }) = 2

Kinds == {"ip", "fqdn", "hostname"}

BeforeFirstDot(h) ==
    IF \E i \in 1..Len(h) : h[i] = "."
    THEN SubSeq(h, 1, (CHOOSE i \in 1..Len(h) :
                          h[i] = "." /\ \A j \in 1..(i - 1) : h[j] /= ".") - 1)
    ELSE h

ParsedHost == parse.done /\ parse.fn = "ParseHost"

\* C32 as stated: ParseHost gives every literal one kind among ip, fqdn and
\* hostname, and whatever port follows the host part, the short name is the
\* host part for ip and hostname and the part of it before the first '.'
\* for fqdn.
C32_ShortNameByKind ==
    ParsedHost =>
        /\ parse.info.Type \in Kinds
        /\ parse.info.Type \in {"ip", "hostname"} =>
               parse.info.ShortName = parse.base
        /\ parse.info.Type = "fqdn" =>
               parse.info.ShortName = BeforeFirstDot(parse.base)

\* C32 amended: as stated, but for fqdn the short name is the part before
\* the first '.' only when that part is not empty, and the whole host part
\* when the host part begins with '.'.
C32_ShortNameByKindAmended ==
    ParsedHost =>
        /\ parse.info.Type \in Kinds
        /\ parse.info.Type \in {"ip", "hostname"} =>
               parse.info.ShortName = parse.base
        /\ parse.info.Type = "fqdn" =>
               parse.info.ShortName =
                   IF BeforeFirstDot(parse.base) = <<>> THEN parse.base
                   ELSE BeforeFirstDot(parse.base)

\* an address with a port: kind ip, the short name is the address
C32_Witness ==
    /\ ParsedHost
    /\ parse.info.Type = "ip"
    /\ parse.host = parse.base \o <<":", "2">>
    /\ parse.info.ShortName = <<"1", ".", "1", ".", "1", ".", "1">>

ConfigRead == parse.done /\ parse.fn = "readSshConfig"

PortInLiteral == \E i \in 1..Len(parse.host) : parse.host[i] = ":"

\* C33: whatever the per-host configuration holds, after readSshConfig the
\* hostname is the one ParseHost took from the literal, and so is the port
\* when the literal gives one.
C33_LiteralFieldsKept ==
    ConfigRead =>
        /\ parse.final.Hostname = parse.info.Hostname
        /\ PortInLiteral => parse.final.Port = parse.info.Port

NoCredentials ==
    ~last.ctx.creds.password /\ ~last.ctx.creds.passphrase

UnlockFailed == last.ctx.creds.passphrase /\ ~last.unlocked

\* C34: newSsh calls ssh.Dial only with a usable authentication method.
\* With neither a password nor a passphrase it fails without dialing; with
\* a passphrase that does not unlock the private key it fails without
\* dialing, with or without a password.
C34_DialOnlyWithAuth ==
    last.valid =>
        /\ NoCredentials => (~last.dialed /\ last.err = "no_auth_method")
        /\ UnlockFailed => (~last.dialed /\ last.err = "key_unlock")
        /\ last.dialed =>
               (last.ctx.creds.password \/ last.unlocked)

\* the key did not unlock, a password was given: no dial
C34_Witness ==
    /\ last.valid
    /\ UnlockFailed
    /\ last.ctx.creds.password
    /\ ~last.dialed

\* C35: in a run of updates() that applies updates, every command is run on
\* a session on which Close has not been called yet; the RouterBoard apply
\* command that follows a RouterOS update is among them.
C35_NoRunAfterClose ==
    run.apply => \A i \in 1..Len(runLog) : runLog[i].delivered

UpdatesReturned == pc = "done" /\ ret /= "none"

\* C39: when updates() returns, with or without an error, Close has been
\* called on every session the connection factory gave it during the run:
\* the first one and the one each reconnect loop ended with.
C39_EverySessionClosed ==
    UpdatesReturned =>
        \A i \in 1..Len(sessions) :
            ~sessions[i].open /\ sessions[i].closes >= 1

\* a run that applied both updates and returned: three sessions
C39_Witness ==
    /\ UpdatesReturned
    /\ Len(sessions) >= 2
    /\ ret = "ok"

ReconnectFailed ==
    \E i \in 1..Len(steps) : steps[i] = [name |-> "reconnect", failed |-> TRUE]

\* C36: when the connection made after the export fails, enroll() returns
\* an error and calls neither Close nor Run on the session it did not get;
\* when it succeeds, the session used before the export is closed and the
\* post-enroll script runs on the new one.
C36_ReconnectAfterExport ==
    subcommand = "enroll" =>
        /\ ReconnectFailed => ret = "error"
        /\ (StepDone("reconnect") /\ StepDone("post")) =>
               /\ Len(sessions) = 2
               /\ ~sessions[1].open
               /\ \A i \in 1..Len(runLog) :
                      runLog[i].cmd = PostEnrollCmd =>
                          (runLog[i].sess = 2 /\ runLog[i].delivered)

\* the record the last call found for its host, and what loading it gives
FoundRecord == last.pre[HostKeyFilePath(last.host)]

FoundUnreadable ==
    /\ last.valid
    /\ last.cb /= "not_called"
    /\ FoundRecord.kind /= "absent"
    /\ LoadFile(FoundRecord).err /= "none"

\* C37: with verification on, a host whose record exists and cannot be
\* loaded (not JSON, publicKey not base64, bytes that are no key, file not
\* readable) is rejected, in enrollment mode too, and the record is left as
\* it was: nothing is captured over it.
C37_UnreadableRecordRejected ==
    (FoundUnreadable /\ ~SkipFlag(last.ctx.cfg)) =>
        /\ last.err = "hostkey_load"
        /\ last.wrote = "none"
        /\ store = last.pre

C37_Witness ==
    /\ FoundUnreadable
    /\ ~SkipFlag(last.ctx.cfg)
    /\ last.ctx.enroll
    /\ LoadFile(FoundRecord).err = "parse"
    /\ last.err = "hostkey_load"

VerifiedRecord == store[HostKeyFilePath(op.host)]

\* C38: the outcome of VerifyHostKey does not depend on the fingerprint
\* stored in the record: for the key it was called with and for every other
\* key, a record that differs from the one on disk in its fingerprint member
\* only gives the same outcome.
C38_FingerprintIgnored ==
    (op.name = "verify" /\ VerifiedRecord.kind = "json") =>
        \A fp \in Fingerprints, k \in Keys :
            /\ VerifyHostKey(op.host, op.key,
                   [store EXCEPT ![HostKeyFilePath(op.host)] =
                       WithFingerprint(VerifiedRecord, fp)]) = op.err
            /\ VerifyHostKey(op.host, k,
                   [store EXCEPT ![HostKeyFilePath(op.host)] =
                       WithFingerprint(VerifiedRecord, fp)])
                   = VerifyHostKey(op.host, k, store)

\* the record carries the fingerprint of the presented key and the bytes of
\* another key: mismatch
C38_Witness ==
    /\ op.name = "verify"
    /\ VerifiedRecord.kind = "json"
    /\ Pinned.intact
    /\ Pinned.key /= op.key
    /\ MemberValue(VerifiedRecord, "fingerprint") = GetHostKeyFingerprint(op.key)
    /\ op.err = "mismatch"

====
